---- MODULE Spec2Model ----
(***************************************************************************)
(* Model of the GraphRAG -> Nebula Graph bulk importer                     *)
(* (import_graphrag_to_nebula.py, class NebulaGraphImporter).              *)
(*                                                                         *)
(* One run of NebulaGraphImporter.run is a sequential procedure; the       *)
(* variable pc is its position.  Every call of session.execute is one      *)
(* entry of log, so that the order of the statements the store sees can    *)
(* be stated.  The store and the file system are the environment: the      *)
(* outcome of every statement and of every file read is a nondeterministic *)
(* choice; a run has at most MaxFaults statements that the store does not  *)
(* carry out.                                                              *)
(***************************************************************************)
EXTENDS Integers, Sequences, FiniteSets, TLC

(***************************************************************************)
(* Bounds of the model: the rows of the two tables together, the           *)
(* statements of a run that fail, the largest retry budget of RetrySpec,   *)
(* and the batch sizes and retry budgets of Spec.                          *)
(***************************************************************************)
MaxRows == 3
MaxFaults == 3
MaxRetriesDeep == 3
MaxBlankRows == 4
MaxBatch == 3
MaxBatchRows == 4
MaxLabelLen == 2
MaxValueLen == 3
MaxKeyRows == 2
MaxCollisionRows == 2
MaxPathLen == 2
MaxConfigRows == 2
BatchSizes == {1, 2}
RunRetries == {0, 1}

(***************************************************************************)
(* Cell values.  A pandas cell is either missing (NaN/None) or a string,   *)
(* here a sequence of one-character strings.                               *)
(***************************************************************************)
NaN == [na |-> TRUE, v |-> <<>>]
S(chars) == [na |-> FALSE, v |-> chars]

\* pd.isna(value)
IsNa(cell) == cell.na

\* pd.isna(entity_type) or entity_type == ''
IsBlankType(cell) == IsNa(cell) \/ cell.v = <<>>

\* variant: str.swapcase() in the place of str.upper()
ToUpperSwapsCase(c) ==
    CASE c = "a" -> "A"
      [] c = "b" -> "B"
      [] c = "A" -> "a"
      [] c = "B" -> "b"
      [] OTHER -> c

\* str.upper() on the characters of the model's alphabet
ToUpper(c) ==
    CASE c = "a" -> "A"
      [] c = "b" -> "B"
      [] c = "e" -> "E"
      [] c = "n" -> "N"
      [] c = "o" -> "O"
      [] c = "r" -> "R"
      [] c = "s" -> "S"
      [] OTHER -> c

\* str.isalnum() on one (already uppercased) character
IsAlnum(c) == c \in {"a", "b", "e", "n", "o", "r", "s",
                      "A", "B", "E", "N", "O", "P", "R", "S", "1"}

\* .replace(' ', '_').replace('-', '_')
ReplaceSeparators(c) == IF c \in {" ", "-"} THEN "_" ELSE c

RECURSIVE FilterIdentChars(_)
\* ''.join(c for c in clean_type if c.isalnum() or c == '_')
FilterIdentChars(chars) ==
    IF chars = <<>> THEN <<>>
    ELSE LET c == Head(chars)
             rest == FilterIdentChars(Tail(chars))
         IN IF IsAlnum(c) \/ c = "_" THEN <<c>> \o rest ELSE rest

\* variant: the label is cleaned without being uppercased
SanitizeKeepsCase(chars) ==
    FilterIdentChars([n \in 1..Len(chars) |-> ReplaceSeparators(chars[n])])

\* clean_type: upper, separators to underscore, drop the other characters
Sanitize(chars) ==
    FilterIdentChars([n \in 1..Len(chars) |-> ReplaceSeparators(ToUpper(chars[n]))])

\* the label yields no schema object: blank, or nothing left after cleaning
SkipsType(cell) == IsBlankType(cell) \/ Sanitize(cell.v) = <<>>

\* code point of a character (Python compares strings by code point)
CharCode(c) ==
    CASE c = " " -> 32 [] c = "!" -> 33 [] c = "-" -> 45 [] c = "1" -> 49
      [] c = "A" -> 65 [] c = "B" -> 66 [] c = "E" -> 69 [] c = "N" -> 78
      [] c = "O" -> 79 [] c = "P" -> 80 [] c = "R" -> 82 [] c = "S" -> 83
      [] c = "_" -> 95
      [] c = "a" -> 97 [] c = "b" -> 98 [] c = "e" -> 101 [] c = "n" -> 110
      [] c = "o" -> 111 [] c = "r" -> 114 [] c = "s" -> 115
      [] OTHER -> 127

RECURSIVE StrLess(_, _)
\* a < b for Python strings
StrLess(a, b) ==
    IF b = <<>> THEN FALSE
    ELSE IF a = <<>> THEN TRUE
    ELSE IF Head(a) = Head(b) THEN StrLess(Tail(a), Tail(b))
    ELSE CharCode(Head(a)) < CharCode(Head(b))

RECURSIVE UniqueCells(_, _)
\* Series.unique(): the distinct values in order of first appearance, NaN included
UniqueCells(cells, seen) ==
    IF cells = <<>> THEN <<>>
    ELSE IF Head(cells) \in seen THEN UniqueCells(Tail(cells), seen)
    ELSE <<Head(cells)>> \o UniqueCells(Tail(cells), seen \cup {Head(cells)})

RECURSIVE SortCells(_)
\* the keys of a set of string cells in ascending order
SortCells(cells) ==
    IF cells = {} THEN <<>>
    ELSE LET least == CHOOSE x \in cells : \A y \in cells \ {x} : StrLess(x.v, y.v)
         IN <<least>> \o SortCells(cells \ {least})

\* entities_df['type']
TypeColumn(df) == [n \in 1..Len(df) |-> df[n].type]

\* entities_df['type'].unique()
EntityTypes(df) == UniqueCells(TypeColumn(df), {})

\* the group keys of entities_df.groupby('type'): NaN dropped, keys sorted
GroupKeys(df) == SortCells({df[n].type : n \in {m \in 1..Len(df) : ~IsNa(df[m].type)}})

RECURSIVE RowsOfType(_, _, _)
\* the row numbers of the rows whose type equals the key, in source order
RowsOfType(df, key, n) ==
    IF n > Len(df) THEN <<>>
    ELSE (IF df[n].type = key THEN <<n>> ELSE <<>>) \o RowsOfType(df, key, n + 1)

\* len(entities_df[entities_df['type'] == entity_type])
CountOfType(df, key) == Len(RowsOfType(df, key, 1))

Min(a, b) == IF a < b THEN a ELSE b

\* variant: the slice takes the row at i + batch_size as well
SliceInclusive(rows, i, batch_size) == SubSeq(rows, i + 1, Min(i + batch_size + 1, Len(rows)))

\* rows.iloc[i:i + batch_size], i counted from 0
Slice(rows, i, batch_size) == SubSeq(rows, i + 1, Min(i + batch_size, Len(rows)))

\* int(...) / float(...) of a cell that passed pd.notna succeeds on these texts
NumericTexts == {"0", "3"}
ConvertsToNumber(cell) == IsNa(cell) \/ (Len(cell.v) = 1 /\ cell.v[1] \in NumericTexts)

\* not escape_string(value): the escaped key is the empty string
IsEmptyKey(cell) == IsNa(cell) \/ cell.v = <<>>

\* variant: only the source is looked at (`if not source_id: continue`)
ValidRelSourceOnly(row) == ~IsEmptyKey(row.source)

\* the relationship row gets past `if not source_id or not target_id: continue`
ValidRel(row) == ~IsEmptyKey(row.source) /\ ~IsEmptyKey(row.target)

RECURSIVE ValidRelRows(_, _, _)
\* the row numbers of a relationship batch that reach insert_values
ValidRelRows(df, from, to) ==
    IF from > to THEN <<>>
    ELSE (IF ValidRel(df[from]) THEN <<from>> ELSE <<>>) \o ValidRelRows(df, from + 1, to)

\* stats['entity_types'][clean_type] = count: a dict keeps the position of a key
SetCount(entity_types, tag, count) ==
    IF \E n \in 1..Len(entity_types) : entity_types[n].tag = tag
    THEN [n \in 1..Len(entity_types) |->
            IF entity_types[n].tag = tag THEN [tag |-> tag, count |-> count]
            ELSE entity_types[n]]
    ELSE Append(entity_types, [tag |-> tag, count |-> count])

(***************************************************************************)
(* State.                                                                  *)
(***************************************************************************)
VARIABLES
    pc,               \* position of run
    config,           \* self.config['import']: batch_size, max_retries, validate_data
    files,            \* the two parquet files: status and rows
    connection_pool,  \* self.connection_pool: "none", "created", "open", "closed"
    session,          \* self.session: "none", "acquired", "released"
    entities_df,      \* rows loaded by load_parquet_data
    relationships_df,
    stats,            \* self.stats
    loopIdx,          \* index of the current entity type / group / expected count
    batchStart,       \* i of range(0, len, batch_size)
    call,             \* frame of execute_query: query, attempt, caller
    log,              \* every session.execute call, in order, with its outcome
    sleeps,           \* number of time.sleep(retry_delay) calls
    warnings,         \* number of count-mismatch warnings logged
    steps,            \* the steps of run that have returned, with what they reported
    printed,          \* print_statistics was called
    result,           \* what run returned: "none" while running
    exit_code,        \* the exit code of the process: "none" while it runs
    interrupted,      \* a KeyboardInterrupt has been raised in main
    queue,            \* the payloads of the tasks enqueued by the service
    arg,              \* the argument of the function applied on its own
    ret               \* the value it returned: "none" before the call

vars == <<pc, config, files, connection_pool, session, entities_df, relationships_df,
          stats, loopIdx, batchStart, call, log, sleeps, warnings, steps, printed, result,
          exit_code, interrupted, queue, arg, ret>>

NoCall == [query |-> [kind |-> "none", tag |-> <<>>, rows |-> <<>>],
           attempt |-> 0, caller |-> "none"]

Statement(kind, tag, rows) == [kind |-> kind, tag |-> tag, rows |-> rows]

\* __init__: self.stats
InitStats == [entities_processed |-> 0, entities_imported |-> 0,
              relationships_processed |-> 0, relationships_imported |-> 0,
              errors |-> <<>>, entity_types |-> <<>>]

(***************************************************************************)
(* Inputs of the runs explored.                                            *)
(***************************************************************************)
EntityRow(type, frequency) == [id |-> NaN, type |-> type, frequency |-> frequency]
RelRow(source, target, weight) == [source |-> source, target |-> target, weight |-> weight]

RunEntityRows ==
    { EntityRow(S(<<"b">>), S(<<"3">>)),
      EntityRow(S(<<"a", "-">>), NaN),
      EntityRow(NaN, S(<<"3">>)),
      EntityRow(S(<<"b">>), S(<<"a">>)) }

RunRelRows ==
    { RelRow(S(<<"a">>), S(<<"b">>), S(<<"3">>)),
      RelRow(S(<<>>), S(<<"b">>), S(<<"a">>)),
      RelRow(S(<<"a">>), S(<<"b">>), S(<<"a">>)) }

\* the entity ids of a table are unique: row n has id "n"
IdChars == <<"1", "2", "3", "4", "5", "6", "7", "8", "9">>
WithIds(rows) == [n \in 1..Len(rows) |-> [rows[n] EXCEPT !.id = S(<<IdChars[n]>>)]]

SeqsUpTo(set, n) == UNION {[1..m -> set] : m \in 0..n}

Unreadable == {[status |-> st, rows |-> <<>>] : st \in {"missing", "corrupt"}}

EntityFiles(rowSet, n) ==
    {[status |-> "ok", rows |-> WithIds(r)] : r \in SeqsUpTo(rowSet, n)} \cup Unreadable

RelFiles(rowSet, n) ==
    {[status |-> "ok", rows |-> r] : r \in SeqsUpTo(rowSet, n)} \cup Unreadable

Init ==
    /\ pc = "connect_nebula"
    /\ config \in [batch_size : BatchSizes,
                   max_retries : RunRetries,
                   validate_data : BOOLEAN]
    /\ files \in [entities : EntityFiles(RunEntityRows, MaxRows),
                  relationships : RelFiles(RunRelRows, MaxRows)]
    /\ Len(files.entities.rows) + Len(files.relationships.rows) <= MaxRows
    /\ connection_pool = "none"
    /\ session = "none"
    /\ entities_df = <<>>
    /\ relationships_df = <<>>
    /\ stats = InitStats
    /\ loopIdx = 1
    /\ batchStart = 0
    /\ call = NoCall
    /\ log = <<>>
    /\ sleeps = 0
    /\ warnings = 0
    /\ steps = <<>>
    /\ printed = FALSE
    /\ result = "none"
    /\ exit_code = "none"
    /\ interrupted = FALSE
    /\ queue = <<>>
    /\ arg = "none"
    /\ ret = "none"

(***************************************************************************)
(* run returns a value only through the finally clause.                    *)
(***************************************************************************)
StepReturned(name, ok) == Append(steps, [name |-> name, ok |-> ok])

\* variant: run does not look at what connect_nebula returned
ConnectNebulaUnchecked ==
    /\ pc = "connect_nebula"
    /\ \E outcome \in {"no_pool", "init_failed", "no_session", "use_failed", "ok"} :
        /\ connection_pool' = CASE outcome = "no_pool" -> "none"
                                [] outcome = "init_failed" -> "created"
                                [] OTHER -> "open"
        /\ session' = IF outcome \in {"use_failed", "ok"} THEN "acquired" ELSE "none"
        /\ log' = IF outcome \in {"use_failed", "ok"}
                  THEN Append(log, [kind |-> "USE", tag |-> <<>>, rows |-> <<>>,
                                    attempt |-> 0, ok |-> outcome = "ok", then |-> "direct"])
                  ELSE log
        /\ steps' = StepReturned("connect_nebula", outcome = "ok")
        /\ pc' = "load_parquet_data"
        /\ result' = result
    /\ UNCHANGED <<interrupted, exit_code, arg, ret, queue, config, files, entities_df, relationships_df, stats, loopIdx,
                   batchStart, call, sleeps, warnings, printed>>

\* connect_nebula, called by run: pool init, get_session, USE <space>.  It fails
\* before the pool object exists ("no_pool"), at pool.init, at get_session or at USE.
\* The program has one thread: between the start and the return of connect_nebula
\* nothing else runs, except an interrupt (InterruptedConnect).
ConnectNebula ==
    /\ pc = "connect_nebula"
    /\ \E outcome \in {"no_pool", "init_failed", "no_session", "use_failed", "ok"} :
        /\ connection_pool' = CASE outcome = "no_pool" -> "none"
                                [] outcome = "init_failed" -> "created"
                                [] OTHER -> "open"
        /\ session' = IF outcome \in {"use_failed", "ok"} THEN "acquired" ELSE "none"
        /\ log' = IF outcome \in {"use_failed", "ok"}
                  THEN Append(log, [kind |-> "USE", tag |-> <<>>, rows |-> <<>>,
                                    attempt |-> 0, ok |-> outcome = "ok", then |-> "direct"])
                  ELSE log
        /\ steps' = StepReturned("connect_nebula", outcome = "ok")
        /\ IF outcome = "ok"
           THEN pc' = "load_parquet_data" /\ result' = result
           ELSE pc' = "disconnect_nebula" /\ result' = "False"
    /\ UNCHANGED <<interrupted, exit_code, arg, ret, queue, config, files, entities_df, relationships_df, stats, loopIdx,
                   batchStart, call, sleeps, warnings, printed>>

\* variant: a missing file is read as an empty table
ReadableOrMissing(file) == file.status \in {"ok", "missing"}

\* variant: a file that is there but cannot be parsed is read as an empty table
ReadableOrCorrupt(file) == file.status \in {"ok", "corrupt"}

\* pd.read_parquet(file) returns a table; it raises on a missing or corrupt file
Readable(file) == file.status = "ok"

\* variant: run does not look at what load_parquet_data returned
LoadParquetDataUnchecked ==
    /\ pc = "load_parquet_data"
    /\ IF Readable(files.entities) /\ Readable(files.relationships)
       THEN /\ entities_df' = files.entities.rows
            /\ relationships_df' = files.relationships.rows
            /\ steps' = StepReturned("load_parquet_data", TRUE)
       ELSE /\ UNCHANGED <<entities_df, relationships_df>>
            /\ steps' = StepReturned("load_parquet_data", FALSE)
    /\ pc' = "create_dynamic_tags"
    /\ result' = result
    /\ loopIdx' = 1
    /\ UNCHANGED <<interrupted, exit_code, arg, ret, queue, config, files, connection_pool, session, stats, batchStart, call,
                   log, sleeps, warnings, printed>>

\* load_parquet_data, and run's check of what it returned
LoadParquetData ==
    /\ pc = "load_parquet_data"
    /\ IF Readable(files.entities) /\ Readable(files.relationships)
       THEN /\ entities_df' = files.entities.rows
            /\ relationships_df' = files.relationships.rows
            /\ steps' = StepReturned("load_parquet_data", TRUE)
            /\ pc' = "create_dynamic_tags"
            /\ result' = result
       ELSE /\ UNCHANGED <<entities_df, relationships_df>>
            /\ steps' = StepReturned("load_parquet_data", FALSE)
            /\ pc' = "disconnect_nebula"
            /\ result' = "False"
    /\ loopIdx' = 1
    /\ UNCHANGED <<interrupted, exit_code, arg, ret, queue, config, files, connection_pool, session, stats, batchStart, call,
                   log, sleeps, warnings, printed>>

\* one iteration of `for entity_type in entity_types`, up to the call of execute_query
CreateDynamicTags ==
    /\ pc = "create_dynamic_tags"
    /\ LET types == EntityTypes(entities_df) IN
       IF loopIdx > Len(types)
       THEN /\ steps' = StepReturned("create_dynamic_tags", TRUE)
            /\ pc' = "import_entities"
            /\ loopIdx' = 1
            /\ call' = call
       ELSE IF SkipsType(types[loopIdx])
       THEN /\ loopIdx' = loopIdx + 1
            /\ UNCHANGED <<steps, pc, call>>
       ELSE /\ call' = [query |-> Statement("CREATE_TAG", Sanitize(types[loopIdx].v), <<>>),
                        attempt |-> 0, caller |-> "create_dynamic_tags"]
            /\ pc' = "execute_query"
            /\ UNCHANGED <<steps, loopIdx>>
    /\ batchStart' = 0
    /\ UNCHANGED <<interrupted, exit_code, arg, ret, queue, config, files, connection_pool, session, entities_df, relationships_df,
                   stats, log, sleeps, warnings, printed, result>>

\* the statements of the run that the store did not carry out; the runs explored
\* have at most MaxFaults of them
Faults == Cardinality({n \in 1..Len(log) : ~log[n].ok})

\* variant: for attempt in range(max_retries)
InRangeShort(attempt, max_retries) == attempt < max_retries

\* for attempt in range(max_retries + 1)
InRange(attempt, max_retries) == attempt < max_retries + 1

\* variant: the loop does not return at the first success, it reports the last attempt
AfterAttemptUsesAllAttempts(ok, attempt, max_retries) ==
    IF attempt # max_retries THEN "retry"
    ELSE IF ok THEN "True"
    ELSE "False"

\* what execute_query does after one attempt: return True, give up, or retry
AfterAttempt(ok, attempt, max_retries) ==
    IF ok THEN "True"
    ELSE IF attempt = max_retries THEN "False"
    ELSE "retry"

\* variant: a failed schema creation is logged and the loop goes on (continue)
AfterCreateTagContinues(ok, st) ==
    /\ stats' = IF ok
                THEN [st EXCEPT !.entity_types =
                        SetCount(@, call.query.tag,
                                 CountOfType(entities_df, EntityTypes(entities_df)[loopIdx]))]
                ELSE st
    /\ loopIdx' = loopIdx + 1
    /\ pc' = "create_dynamic_tags"
    /\ UNCHANGED <<steps, result>>

\* variant: a failed schema creation leaves the loop (break) and the step returns True
AfterCreateTagBreaks(ok, st) ==
    IF ok
    THEN /\ stats' = [st EXCEPT !.entity_types =
                        SetCount(@, call.query.tag,
                                 CountOfType(entities_df, EntityTypes(entities_df)[loopIdx]))]
         /\ loopIdx' = loopIdx + 1
         /\ pc' = "create_dynamic_tags"
         /\ UNCHANGED <<steps, result>>
    ELSE /\ stats' = st
         /\ steps' = StepReturned("create_dynamic_tags", TRUE)
         /\ pc' = "import_entities"
         /\ result' = result
         /\ loopIdx' = 1

\* create_dynamic_tags after execute_query(create_tag_query) returned
AfterCreateTag(ok, st) ==
    IF ok
    THEN /\ stats' = [st EXCEPT !.entity_types =
                        SetCount(@, call.query.tag,
                                 CountOfType(entities_df, EntityTypes(entities_df)[loopIdx]))]
         /\ loopIdx' = loopIdx + 1
         /\ pc' = "create_dynamic_tags"
         /\ UNCHANGED <<steps, result>>
    ELSE /\ stats' = st
         /\ steps' = StepReturned("create_dynamic_tags", FALSE)
         /\ pc' = "disconnect_nebula"
         /\ result' = "False"
         /\ loopIdx' = loopIdx

\* variant: a failed vertex batch makes import_entities return False
AfterInsertVertexAborts(ok, st) ==
    IF ok
    THEN /\ stats' = [st EXCEPT !.entities_imported = @ + Len(call.query.rows)]
         /\ pc' = "entities_processed"
         /\ UNCHANGED <<steps, result, loopIdx>>
    ELSE /\ stats' = st
         /\ steps' = StepReturned("import_entities", FALSE)
         /\ pc' = "disconnect_nebula"
         /\ result' = "False"
         /\ loopIdx' = loopIdx

\* variant: a successful vertex batch adds the configured batch size to the counter
AfterInsertVertexCountsBatchSize(ok, st) ==
    /\ stats' = [st EXCEPT !.entities_imported = IF ok THEN @ + config.batch_size ELSE @]
    /\ pc' = "entities_processed"
    /\ UNCHANGED <<steps, result, loopIdx>>

\* import_entities after execute_query(insert_query) returned
AfterInsertVertex(ok, st) ==
    /\ stats' = [st EXCEPT !.entities_imported = IF ok THEN @ + Len(call.query.rows) ELSE @]
    /\ pc' = "entities_processed"
    /\ UNCHANGED <<steps, result, loopIdx>>

\* variant: a successful edge batch sets the counter (=) where the code adds (+=)
AfterInsertEdgeAssigns(ok, st) ==
    /\ stats' = [st EXCEPT !.relationships_imported =
                    IF ok THEN Len(call.query.rows) ELSE @]
    /\ pc' = "relationships_processed"
    /\ UNCHANGED <<steps, result, loopIdx>>

\* variant: a successful edge batch adds len(batch_df), the dropped rows included
AfterInsertEdgeCountsBatch(ok, st) ==
    /\ stats' = [st EXCEPT !.relationships_imported =
                    IF ok THEN @ + (Min(batchStart + config.batch_size,
                                        Len(relationships_df)) - batchStart)
                    ELSE @]
    /\ pc' = "relationships_processed"
    /\ UNCHANGED <<steps, result, loopIdx>>

\* import_relationships after execute_query(insert_query) returned
AfterInsertEdge(ok, st) ==
    /\ stats' = [st EXCEPT !.relationships_imported =
                    IF ok THEN @ + Len(call.query.rows) ELSE @]
    /\ pc' = "relationships_processed"
    /\ UNCHANGED <<steps, result, loopIdx>>

\* the caller of execute_query goes on with the value returned
ReturnToCaller(ok, st) ==
    CASE call.caller = "create_dynamic_tags" -> AfterCreateTag(ok, st)
      [] call.caller = "import_entities" -> AfterInsertVertex(ok, st)
      [] call.caller = "import_relationships" -> AfterInsertEdge(ok, st)

\* variant: every failed attempt appends to the error list, also one that is retried
AttemptRecordsEveryFailure(ok, message) ==
    /\ LET after == AfterAttempt(ok, call.attempt, config.max_retries)
           goesOn == after = "retry" /\ InRange(call.attempt + 1, config.max_retries)
       IN /\ log' = Append(log, [kind |-> call.query.kind, tag |-> call.query.tag,
                                 rows |-> call.query.rows, attempt |-> call.attempt,
                                 ok |-> ok,
                                 then |-> IF goesOn THEN "retry"
                                          ELSE IF after = "True" THEN "True" ELSE "False"])
          /\ sleeps' = IF after = "retry" THEN sleeps + 1 ELSE sleeps
          /\ IF goesOn
             THEN /\ call' = [call EXCEPT !.attempt = @ + 1]
                  /\ stats' = [stats EXCEPT !.errors = Append(@, message)]
                  /\ UNCHANGED <<pc, loopIdx, steps, result>>
             ELSE /\ call' = NoCall
                  /\ ReturnToCaller(after = "True",
                                    IF ~ok
                                    THEN [stats EXCEPT !.errors = Append(@, message)]
                                    ELSE stats)
    /\ UNCHANGED <<interrupted, exit_code, arg, ret, queue, config, files, connection_pool, session, entities_df, relationships_df,
                   batchStart, warnings, printed>>

\* variant: the delay is slept after every failed attempt, also after the last one
AttemptSleepsAfterEveryFailure(ok, message) ==
    /\ LET after == AfterAttempt(ok, call.attempt, config.max_retries)
           goesOn == after = "retry" /\ InRange(call.attempt + 1, config.max_retries)
       IN /\ log' = Append(log, [kind |-> call.query.kind, tag |-> call.query.tag,
                                 rows |-> call.query.rows, attempt |-> call.attempt,
                                 ok |-> ok,
                                 then |-> IF goesOn THEN "retry"
                                          ELSE IF after = "True" THEN "True" ELSE "False"])
          /\ sleeps' = IF ~ok THEN sleeps + 1 ELSE sleeps
          /\ IF goesOn
             THEN /\ call' = [call EXCEPT !.attempt = @ + 1]
                  /\ UNCHANGED <<pc, stats, loopIdx, steps, result>>
             ELSE /\ call' = NoCall
                  /\ ReturnToCaller(after = "True",
                                    IF after = "False"
                                    THEN [stats EXCEPT !.errors = Append(@, message)]
                                    ELSE stats)
    /\ UNCHANGED <<interrupted, exit_code, arg, ret, queue, config, files, connection_pool, session, entities_df, relationships_df,
                   batchStart, warnings, printed>>

\* one pass of the loop body of execute_query: session.execute and what follows,
\* up to the next pass or, after the last one, to what the caller does with the
\* value returned.  An interrupt inside the pass is InterruptedExecute.
Attempt(ok, message) ==
    /\ LET after == AfterAttempt(ok, call.attempt, config.max_retries)
           goesOn == after = "retry" /\ InRange(call.attempt + 1, config.max_retries)
       IN /\ log' = Append(log, [kind |-> call.query.kind, tag |-> call.query.tag,
                                 rows |-> call.query.rows, attempt |-> call.attempt,
                                 ok |-> ok,
                                 then |-> IF goesOn THEN "retry"
                                          ELSE IF after = "True" THEN "True" ELSE "False"])
          /\ sleeps' = IF after = "retry" THEN sleeps + 1 ELSE sleeps
          /\ IF goesOn
             THEN /\ call' = [call EXCEPT !.attempt = @ + 1]
                  /\ UNCHANGED <<pc, stats, loopIdx, steps, result>>
             ELSE /\ call' = NoCall
                  /\ ReturnToCaller(after = "True",
                                    IF after = "False"
                                    THEN [stats EXCEPT !.errors = Append(@, message)]
                                    ELSE stats)
    /\ UNCHANGED <<interrupted, exit_code, arg, ret, queue, config, files, connection_pool, session, entities_df, relationships_df,
                   batchStart, warnings, printed>>

\* result.is_succeeded()
ExecuteSucceeds ==
    /\ pc = "execute_query"
    /\ Attempt(TRUE, "none")

\* the store reports a failure
ExecuteFails ==
    /\ pc = "execute_query"
    /\ Faults < MaxFaults
    /\ Attempt(FALSE, "Query failed")

\* session.execute raises
ExecuteRaises ==
    /\ pc = "execute_query"
    /\ Faults < MaxFaults
    /\ Attempt(FALSE, "Query exception")

\* the rows of the current batch_df of import_entities
EntityBatch ==
    Slice(RowsOfType(entities_df, GroupKeys(entities_df)[loopIdx], 1),
          batchStart, config.batch_size)

\* one step of the two nested loops of import_entities, up to the call of execute_query
ImportEntities ==
    /\ pc = "import_entities"
    /\ LET keys == GroupKeys(entities_df) IN
       IF loopIdx > Len(keys)
       THEN /\ steps' = StepReturned("import_entities", TRUE)
            /\ pc' = "import_relationships"
            /\ loopIdx' = 1
            /\ batchStart' = 0
            /\ UNCHANGED <<call, result>>
       ELSE IF SkipsType(keys[loopIdx])
               \/ batchStart >= Len(RowsOfType(entities_df, keys[loopIdx], 1))
       THEN /\ loopIdx' = loopIdx + 1
            /\ batchStart' = 0
            /\ UNCHANGED <<steps, pc, call, result>>
       ELSE IF \E n \in 1..Len(EntityBatch) :
                  ~ConvertsToNumber(entities_df[EntityBatch[n]].frequency)
       THEN /\ steps' = StepReturned("import_entities", FALSE)
            /\ pc' = "disconnect_nebula"
            /\ result' = "False"
            /\ UNCHANGED <<loopIdx, batchStart, call>>
       ELSE /\ call' = [query |-> Statement("INSERT_VERTEX", Sanitize(keys[loopIdx].v),
                                            EntityBatch),
                        attempt |-> 0, caller |-> "import_entities"]
            /\ pc' = "execute_query"
            /\ UNCHANGED <<steps, loopIdx, batchStart, result>>
    /\ UNCHANGED <<interrupted, exit_code, arg, ret, queue, config, files, connection_pool, session, entities_df, relationships_df,
                   stats, log, sleeps, warnings, printed>>

\* variant: the processed counter is moved by the configured batch size
EntitiesProcessedCountsBatchSize ==
    /\ pc = "entities_processed"
    /\ stats' = [stats EXCEPT !.entities_processed = @ + config.batch_size]
    /\ batchStart' = batchStart + config.batch_size
    /\ pc' = "import_entities"
    /\ UNCHANGED <<interrupted, exit_code, arg, ret, queue, config, files, connection_pool, session, entities_df, relationships_df,
                   loopIdx, call, log, sleeps, warnings, steps, printed, result>>

\* self.stats['entities_processed'] += len(batch_df), and the next i
EntitiesProcessed ==
    /\ pc = "entities_processed"
    /\ stats' = [stats EXCEPT !.entities_processed = @ + Len(EntityBatch)]
    /\ batchStart' = batchStart + config.batch_size
    /\ pc' = "import_entities"
    /\ UNCHANGED <<interrupted, exit_code, arg, ret, queue, config, files, connection_pool, session, entities_df, relationships_df,
                   loopIdx, call, log, sleeps, warnings, steps, printed, result>>

\* the last row number of the current batch_df of import_relationships
RelBatchEnd == Min(batchStart + config.batch_size, Len(relationships_df))

\* the rows of the current batch that are rendered into insert_values
RelBatchValid == ValidRelRows(relationships_df, batchStart + 1, RelBatchEnd)

\* variant: the statement is issued without the `if insert_values:` guard
ImportRelationshipsUnguarded ==
    /\ pc = "import_relationships"
    /\ IF batchStart >= Len(relationships_df)
       THEN /\ steps' = StepReturned("import_relationships", TRUE)
            /\ pc' = "validate_import"
            /\ batchStart' = 0
            /\ UNCHANGED <<call, result>>
       ELSE IF \E n \in 1..Len(RelBatchValid) :
                  ~ConvertsToNumber(relationships_df[RelBatchValid[n]].weight)
       THEN /\ steps' = StepReturned("import_relationships", FALSE)
            /\ pc' = "disconnect_nebula"
            /\ result' = "False"
            /\ UNCHANGED <<batchStart, call>>
       ELSE /\ call' = [query |-> Statement("INSERT_EDGE", <<>>, RelBatchValid),
                        attempt |-> 0, caller |-> "import_relationships"]
            /\ pc' = "execute_query"
            /\ UNCHANGED <<steps, batchStart, result>>
    /\ loopIdx' = 1
    /\ UNCHANGED <<interrupted, exit_code, arg, ret, queue, config, files, connection_pool, session, entities_df, relationships_df,
                   stats, log, sleeps, warnings, printed>>

\* one step of the loop of import_relationships, up to the call of execute_query
ImportRelationships ==
    /\ pc = "import_relationships"
    /\ IF batchStart >= Len(relationships_df)
       THEN /\ steps' = StepReturned("import_relationships", TRUE)
            /\ pc' = "validate_import"
            /\ batchStart' = 0
            /\ UNCHANGED <<call, result>>
       ELSE IF \E n \in 1..Len(RelBatchValid) :
                  ~ConvertsToNumber(relationships_df[RelBatchValid[n]].weight)
       THEN /\ steps' = StepReturned("import_relationships", FALSE)
            /\ pc' = "disconnect_nebula"
            /\ result' = "False"
            /\ UNCHANGED <<batchStart, call>>
       ELSE IF RelBatchValid # <<>>
       THEN /\ call' = [query |-> Statement("INSERT_EDGE", <<>>, RelBatchValid),
                        attempt |-> 0, caller |-> "import_relationships"]
            /\ pc' = "execute_query"
            /\ UNCHANGED <<steps, batchStart, result>>
       ELSE /\ batchStart' = batchStart + config.batch_size
            /\ UNCHANGED <<steps, pc, call, result>>
    /\ loopIdx' = 1
    /\ UNCHANGED <<interrupted, exit_code, arg, ret, queue, config, files, connection_pool, session, entities_df, relationships_df,
                   stats, log, sleeps, warnings, printed>>

\* self.stats['relationships_processed'] += len(batch_df), and the next i
RelationshipsProcessed ==
    /\ pc = "relationships_processed"
    /\ stats' = [stats EXCEPT !.relationships_processed = @ + (RelBatchEnd - batchStart)]
    /\ batchStart' = batchStart + config.batch_size
    /\ pc' = "import_relationships"
    /\ UNCHANGED <<interrupted, exit_code, arg, ret, queue, config, files, connection_pool, session, entities_df, relationships_df,
                   loopIdx, call, log, sleeps, warnings, steps, printed, result>>

\* variant: run returns False when validate_import returned False
AfterValidateChecked(ok) ==
    /\ steps' = StepReturned("validate_import", ok)
    /\ pc' = IF ok THEN "print_statistics" ELSE "disconnect_nebula"
    /\ result' = IF ok THEN result ELSE "False"

\* run after validate_import returned: the value is not looked at
AfterValidate(ok) ==
    /\ steps' = StepReturned("validate_import", ok)
    /\ pc' = "print_statistics"
    /\ result' = result

\* the config file gives import.validate_data: _load_config checks no key
HasValidateData == "validate_data" \in DOMAIN config

\* validate_import up to the test of the flag, which is read outside of its try
\* block.  With no validate_data in the config the KeyError leaves validate_import
\* and `except Exception` of run returns False; with the flag off validate_import
\* returns True at once
ValidateDisabled ==
    /\ pc = "validate_import"
    /\ IF ~HasValidateData
       THEN /\ result' = "False"
            /\ pc' = "disconnect_nebula"
            /\ steps' = steps
       ELSE /\ ~config.validate_data
            /\ AfterValidate(TRUE)
    /\ UNCHANGED <<interrupted, exit_code, arg, ret, queue, config, files, connection_pool, session, entities_df, relationships_df,
                   stats, loopIdx, batchStart, call, log, sleeps, warnings, printed>>

\* variant: every category query counts the first schema object
CountQueryFirstTag ==
    IF loopIdx <= Len(stats.entity_types)
    THEN [query |-> Statement("COUNT_TAG", stats.entity_types[1].tag, <<>>),
          expected |-> stats.entity_types[1].count]
    ELSE [query |-> Statement("COUNT_EDGE", <<>>, <<>>),
          expected |-> stats.relationships_imported]

\* the count query validate_import is about to issue, and the count it expects
CountQuery ==
    IF loopIdx <= Len(stats.entity_types)
    THEN [query |-> Statement("COUNT_TAG", stats.entity_types[loopIdx].tag, <<>>),
          expected |-> stats.entity_types[loopIdx].count]
    ELSE [query |-> Statement("COUNT_EDGE", <<>>, <<>>),
          expected |-> stats.relationships_imported]

\* the counts the store may answer to a count query: the space may hold more, or
\* fewer, vertices and edges than the run has inserted
StoreAnswers == 0..(Len(entities_df) + Len(relationships_df) + 1)

\* one count query of validate_import, issued with session.execute (no retry)
ValidateImport ==
    /\ pc = "validate_import"
    /\ HasValidateData /\ config.validate_data
    /\ \E outcome \in {"ok", "failed", "raised"} :
       \E actual \in StoreAnswers :
        /\ outcome # "ok" => Faults < MaxFaults
        /\ log' = Append(log, [kind |-> CountQuery.query.kind, tag |-> CountQuery.query.tag,
                               rows |-> <<>>, attempt |-> 0, ok |-> outcome = "ok",
                               then |-> "direct"])
        /\ warnings' = IF outcome = "ok" /\ actual # CountQuery.expected
                       THEN warnings + 1 ELSE warnings
        /\ IF outcome = "raised"
           THEN /\ AfterValidate(FALSE)
                /\ loopIdx' = loopIdx
           ELSE IF loopIdx <= Len(stats.entity_types)
           THEN /\ loopIdx' = loopIdx + 1
                /\ UNCHANGED <<steps, pc, result>>
           ELSE /\ AfterValidate(TRUE)
                /\ loopIdx' = loopIdx
    /\ UNCHANGED <<interrupted, exit_code, arg, ret, queue, config, files, connection_pool, session, entities_df, relationships_df,
                   stats, batchStart, call, sleeps, printed>>

\* print_statistics, then `return True`
PrintStatistics ==
    /\ pc = "print_statistics"
    /\ printed' = TRUE
    /\ result' = "True"
    /\ pc' = "disconnect_nebula"
    /\ UNCHANGED <<interrupted, exit_code, arg, ret, queue, config, files, connection_pool, session, entities_df, relationships_df,
                   stats, loopIdx, batchStart, call, log, sleeps, warnings, steps>>

\* variant: disconnect_nebula is called at the end of the try block, not in finally
DisconnectNebulaOnSuccess ==
    /\ pc = "disconnect_nebula"
    /\ session' = IF session = "acquired" /\ result = "True" THEN "released" ELSE session
    /\ connection_pool' = IF connection_pool # "none" /\ result = "True"
                          THEN "closed" ELSE connection_pool
    /\ steps' = IF result = "True" THEN StepReturned("disconnect_nebula", TRUE) ELSE steps
    /\ pc' = "done"
    /\ UNCHANGED <<interrupted, exit_code, arg, ret, queue, config, files, entities_df, relationships_df, stats, loopIdx,
                   batchStart, call, log, sleeps, warnings, printed, result>>

\* variant: print_statistics is called in the finally clause
DisconnectNebulaPrints ==
    /\ pc = "disconnect_nebula"
    /\ printed' = TRUE
    /\ session' = IF session = "acquired" THEN "released" ELSE session
    /\ connection_pool' = IF connection_pool # "none" THEN "closed" ELSE connection_pool
    /\ steps' = StepReturned("disconnect_nebula", TRUE)
    /\ pc' = "done"
    /\ UNCHANGED <<interrupted, exit_code, arg, ret, queue, config, files, entities_df, relationships_df, stats, loopIdx,
                   batchStart, call, log, sleeps, warnings, result>>

\* variant: the session is released without the `if self.session:` test
DisconnectNebulaReleasesUnacquired ==
    /\ pc = "disconnect_nebula"
    /\ session' = "released"
    /\ connection_pool' = IF connection_pool # "none" THEN "closed" ELSE connection_pool
    /\ steps' = StepReturned("disconnect_nebula", TRUE)
    /\ pc' = "done"
    /\ UNCHANGED <<interrupted, exit_code, arg, ret, queue, config, files, entities_df, relationships_df, stats, loopIdx,
                   batchStart, call, log, sleeps, warnings, printed, result>>

\* finally: disconnect_nebula; then control is back at the caller of run
DisconnectNebula ==
    /\ pc = "disconnect_nebula"
    /\ session' = IF session = "acquired" THEN "released" ELSE session
    /\ connection_pool' = IF connection_pool # "none" THEN "closed" ELSE connection_pool
    /\ steps' = StepReturned("disconnect_nebula", TRUE)
    /\ pc' = "done"
    /\ UNCHANGED <<interrupted, exit_code, arg, ret, queue, config, files, entities_df, relationships_df, stats, loopIdx,
                   batchStart, call, log, sleeps, warnings, printed, result>>

Next ==
    \/ ConnectNebula
    \/ LoadParquetData
    \/ CreateDynamicTags
    \/ ExecuteSucceeds
    \/ ExecuteFails
    \/ ExecuteRaises
    \/ ImportEntities
    \/ EntitiesProcessed
    \/ ImportRelationships
    \/ RelationshipsProcessed
    \/ ValidateDisabled
    \/ ValidateImport
    \/ PrintStatistics
    \/ DisconnectNebula

Spec == Init /\ [][Next]_vars

\* Runs over small tables with a larger retry budget, for the retry loop.
RetryInit ==
    /\ pc = "connect_nebula"
    /\ config \in [batch_size : {1},
                   max_retries : 0..MaxRetriesDeep,
                   validate_data : BOOLEAN]
    /\ files \in [entities : EntityFiles(RunEntityRows, 1),
                  relationships : RelFiles(RunRelRows, 1)]
    /\ connection_pool = "none"
    /\ session = "none"
    /\ entities_df = <<>>
    /\ relationships_df = <<>>
    /\ stats = InitStats
    /\ loopIdx = 1
    /\ batchStart = 0
    /\ call = NoCall
    /\ log = <<>>
    /\ sleeps = 0
    /\ warnings = 0
    /\ steps = <<>>
    /\ printed = FALSE
    /\ result = "none"
    /\ exit_code = "none"
    /\ interrupted = FALSE
    /\ queue = <<>>
    /\ arg = "none"
    /\ ret = "none"

RetrySpec == RetryInit /\ [][Next]_vars

\* __init__ and the start of run: nothing connected, nothing loaded, counters at 0
Constructed ==
    /\ pc = "connect_nebula"
    /\ connection_pool = "none"
    /\ session = "none"
    /\ entities_df = <<>>
    /\ relationships_df = <<>>
    /\ stats = InitStats
    /\ loopIdx = 1
    /\ batchStart = 0
    /\ call = NoCall
    /\ log = <<>>
    /\ sleeps = 0
    /\ warnings = 0
    /\ steps = <<>>
    /\ printed = FALSE
    /\ result = "none"
    /\ exit_code = "none"
    /\ interrupted = FALSE
    /\ queue = <<>>
    /\ arg = "none"
    /\ ret = "none"

\* Runs over tables with blank cells: an entity type that is missing, empty or
\* without any identifier character, a relationship source or target that is empty
\* or missing.  The numeric cell of the second row of each set does not convert.
BlankEntityRows ==
    { EntityRow(S(<<"b">>), S(<<"3">>)),
      EntityRow(NaN, S(<<"a">>)),
      EntityRow(S(<<>>), S(<<"3">>)),
      EntityRow(S(<<"!">>), S(<<"3">>)) }

BlankRelRows ==
    { RelRow(S(<<"a">>), S(<<"b">>), S(<<"3">>)),
      RelRow(S(<<>>), S(<<"b">>), S(<<"a">>)),
      RelRow(S(<<"a">>), NaN, S(<<"3">>)) }

BlankInit ==
    /\ config \in [batch_size : BatchSizes,
                   max_retries : {0},
                   validate_data : BOOLEAN]
    /\ files \in [entities : EntityFiles(BlankEntityRows, MaxBlankRows) \ Unreadable,
                  relationships : RelFiles(BlankRelRows, MaxBlankRows) \ Unreadable]
    /\ Len(files.entities.rows) + Len(files.relationships.rows) <= MaxBlankRows
    /\ Constructed

BlankSpec == BlankInit /\ [][Next]_vars

\* Runs with any import section of the config file: _load_config checks no key, and
\* validate_data, which only validate_import reads, may be missing from it.
RunConfigs ==
    [batch_size : BatchSizes, max_retries : RunRetries, validate_data : BOOLEAN]
        \cup [batch_size : BatchSizes, max_retries : RunRetries]

ConfigInit ==
    /\ config \in RunConfigs
    /\ files \in [entities : EntityFiles(RunEntityRows, MaxConfigRows),
                  relationships : RelFiles(RunRelRows, MaxConfigRows)]
    /\ Len(files.entities.rows) + Len(files.relationships.rows) <= MaxConfigRows
    /\ Constructed

ConfigSpec == ConfigInit /\ [][Next]_vars

\* Runs over an entity table of three rows of type "Person" and one row of blank
\* type (missing or empty, at any place of the table), with batch size 2.
Person == S(<<"P", "e", "r", "s", "o", "n">>)

ScenarioTables ==
    { WithIds([n \in 1..4 |-> IF n = k THEN EntityRow(blank, S(<<"3">>))
                              ELSE EntityRow(Person, S(<<"3">>))]) :
         k \in 1..4, blank \in {NaN, S(<<>>)} }

ScenarioInit ==
    /\ config \in [batch_size : {2},
                   max_retries : RunRetries,
                   validate_data : BOOLEAN]
    /\ files \in [entities : {[status |-> "ok", rows |-> t] : t \in ScenarioTables},
                  relationships : RelFiles(RunRelRows, 1) \ Unreadable]
    /\ Constructed

ScenarioSpec == ScenarioInit /\ [][Next]_vars

\* Runs with batch sizes up to MaxBatch over tables of two entity categories and of
\* relationship rows with and without a source.
BatchEntityRows ==
    { EntityRow(S(<<"b">>), S(<<"3">>)),
      EntityRow(S(<<"a", "-">>), NaN) }

BatchRelRows ==
    { RelRow(S(<<"a">>), S(<<"b">>), S(<<"3">>)),
      RelRow(S(<<>>), S(<<"b">>), S(<<"a">>)) }

BatchInit ==
    /\ config \in [batch_size : 1..MaxBatch,
                   max_retries : {0},
                   validate_data : BOOLEAN]
    /\ files \in [entities : EntityFiles(BatchEntityRows, MaxBatchRows) \ Unreadable,
                  relationships : RelFiles(BatchRelRows, MaxBatchRows) \ Unreadable]
    /\ Len(files.entities.rows) + Len(files.relationships.rows) <= MaxBatchRows
    /\ Constructed

BatchSpec == BatchInit /\ [][Next]_vars

\* Runs over an entity table of one row whose type is any label of at most
\* MaxLabelLen characters: letters of both cases, a digit, space, hyphen, underscore
\* and a punctuation character that the cleaning drops.
LabelChars == {"a", "B", "1", " ", "-", "_", "!"}

Labels == SeqsUpTo(LabelChars, MaxLabelLen)

LabelInit ==
    /\ config \in [batch_size : {1},
                   max_retries : {0},
                   validate_data : BOOLEAN]
    /\ files \in [entities : {[status |-> "ok",
                                rows |-> WithIds(<<EntityRow(S(label), S(<<"3">>))>>)] :
                                  label \in Labels},
                  relationships : RelFiles(RunRelRows, 1) \ Unreadable]
    /\ Constructed

LabelSpec == LabelInit /\ [][Next]_vars

\* Runs over entity rows whose id is missing, empty or a string, and relationship
\* rows whose source or target is empty or missing.
KeyEntityRows ==
    { [id |-> id, type |-> type, frequency |-> S(<<"3">>)] :
        id \in {NaN, S(<<>>), S(<<"1">>)}, type \in {S(<<"b">>), NaN} }

KeyInit ==
    /\ config \in [batch_size : BatchSizes,
                   max_retries : {0},
                   validate_data : BOOLEAN]
    /\ files \in [entities : {[status |-> "ok", rows |-> r] :
                                r \in SeqsUpTo(KeyEntityRows, MaxKeyRows)},
                  relationships : RelFiles(BlankRelRows, MaxKeyRows) \ Unreadable]
    /\ Len(files.entities.rows) + Len(files.relationships.rows) <= MaxKeyRows
    /\ Constructed

KeySpec == KeyInit /\ [][Next]_vars

\* Runs over entity tables with two labels that are cleaned to the same name, "a-"
\* and "a " to A_, and a third label.
CollisionEntityRows ==
    { EntityRow(S(<<"a", "-">>), S(<<"3">>)),
      EntityRow(S(<<"a", " ">>), S(<<"3">>)),
      EntityRow(S(<<"b">>), S(<<"3">>)) }

CollisionInit ==
    /\ config \in [batch_size : BatchSizes,
                   max_retries : {0},
                   validate_data : BOOLEAN]
    /\ files \in [entities : EntityFiles(CollisionEntityRows, MaxCollisionRows) \ Unreadable,
                  relationships : {[status |-> "ok",
                                    rows |-> <<RelRow(S(<<"a">>), S(<<"b">>), S(<<"3">>))>>]}]
    /\ Constructed

CollisionSpec == CollisionInit /\ [][Next]_vars

(***************************************************************************)
(* main: the config file is looked for, the importer is constructed, run is *)
(* called inside a try block and the process exits with a code.            *)
(***************************************************************************)
\* the positions inside the try block of run
RunSteps == {"connect_nebula", "load_parquet_data", "create_dynamic_tags",
             "execute_query", "import_entities", "entities_processed",
             "import_relationships", "relationships_processed",
             "validate_import", "print_statistics"}

MainInit ==
    /\ pc = "main"
    /\ config \in [batch_size : {1},
                   max_retries : {0, 1},
                   validate_data : BOOLEAN]
    /\ files \in [config : {"ok", "missing", "invalid"},
                  entities : EntityFiles(RunEntityRows, 1),
                  relationships : RelFiles(RunRelRows, 1)]
    /\ connection_pool = "none"
    /\ session = "none"
    /\ entities_df = <<>>
    /\ relationships_df = <<>>
    /\ stats = InitStats
    /\ loopIdx = 1
    /\ batchStart = 0
    /\ call = NoCall
    /\ log = <<>>
    /\ sleeps = 0
    /\ warnings = 0
    /\ steps = <<>>
    /\ printed = FALSE
    /\ result = "none"
    /\ exit_code = "none"
    /\ interrupted = FALSE
    /\ queue = <<>>
    /\ arg = "none"
    /\ ret = "none"

\* main up to the call of run: sys.exit(1) when the config file does not exist; an
\* exception of the constructor is outside the try block and ends the process with 1
Main ==
    /\ pc = "main"
    /\ IF files.config = "ok"
       THEN pc' = "connect_nebula" /\ exit_code' = exit_code
       ELSE pc' = "exited" /\ exit_code' = 1
    /\ UNCHANGED <<interrupted, arg, ret, queue, config, files, connection_pool, session,
                   entities_df, relationships_df, stats, loopIdx, batchStart, call,
                   log, sleeps, warnings, steps, printed, result>>

\* the entry of the log for the statement of the call of execute_query under way
CallEntry(ok, then) ==
    [kind |-> call.query.kind, tag |-> call.query.tag, rows |-> call.query.rows,
     attempt |-> call.attempt, ok |-> ok, then |-> then]

\* connect_nebula when the interrupt arrives: before the pool object exists, while
\* ConnectionPool.init waits, while get_session waits, while session.execute(USE)
\* waits, or after the store has answered the USE statement; it does not return
InterruptedConnect ==
    /\ pc = "connect_nebula"
    /\ \E reached \in {"start", "init", "get_session", "use", "use_ok", "use_failed"} :
        /\ connection_pool' = CASE reached = "start" -> "none"
                                [] reached = "init" -> "created"
                                [] OTHER -> "open"
        /\ session' = IF reached \in {"use", "use_ok", "use_failed"}
                      THEN "acquired" ELSE "none"
        /\ log' = IF reached \in {"use_ok", "use_failed"}
                  THEN Append(log, [kind |-> "USE", tag |-> <<>>, rows |-> <<>>,
                                    attempt |-> 0, ok |-> reached = "use_ok",
                                    then |-> "direct"])
                  ELSE log
    /\ UNCHANGED <<stats, sleeps, warnings, printed>>

\* execute_query when the interrupt arrives: while session.execute waits and the
\* store has not carried the statement out ("waits"), after the store has answered
\* and before execute_query has done anything about it ("ok", "failed"), in
\* time.sleep before the next attempt ("sleeps"), or once execute_query has decided
\* what it returns and before its caller has recorded the value ("True", "False")
InterruptedExecute ==
    /\ pc = "execute_query"
    /\ \E reached \in {"waits", "ok", "failed", "sleeps", "True", "False"} :
       \E message \in {"Query failed", "Query exception"} :
        /\ reached \in {"failed", "sleeps", "False"} => Faults < MaxFaults
        /\ reached = "False" => call.attempt = config.max_retries
        /\ reached = "sleeps" => call.attempt < config.max_retries
        /\ reached # "False" => message = "Query failed"
        /\ log' = CASE reached = "waits" -> log
                     [] reached \in {"ok", "failed"} ->
                            Append(log, CallEntry(reached = "ok", "interrupted"))
                     [] reached = "sleeps" -> Append(log, CallEntry(FALSE, "retry"))
                     [] OTHER -> Append(log, CallEntry(reached = "True", reached))
        /\ stats' = IF reached = "False"
                    THEN [stats EXCEPT !.errors = Append(@, message)] ELSE stats
        /\ sleeps' = IF reached = "sleeps" THEN sleeps + 1 ELSE sleeps
    /\ UNCHANGED <<connection_pool, session, warnings, printed>>

\* validate_import when the interrupt arrives: while session.execute waits for a
\* count, after the store has answered, or after the count was compared
InterruptedValidate ==
    /\ pc = "validate_import"
    /\ HasValidateData /\ config.validate_data
    /\ \E reached \in {"waits", "ok", "failed", "compared"} :
       \E actual \in StoreAnswers :
        /\ reached = "failed" => Faults < MaxFaults
        /\ log' = IF reached = "waits" THEN log
                  ELSE Append(log, [kind |-> CountQuery.query.kind,
                                    tag |-> CountQuery.query.tag, rows |-> <<>>,
                                    attempt |-> 0, ok |-> reached # "failed",
                                    then |-> "direct"])
        /\ warnings' = IF reached = "compared" /\ actual # CountQuery.expected
                       THEN warnings + 1 ELSE warnings
    /\ UNCHANGED <<connection_pool, session, stats, sleeps, printed>>

\* print_statistics when the interrupt arrives: before or after it has printed
InterruptedPrint ==
    /\ pc = "print_statistics"
    /\ printed' \in {printed, TRUE}
    /\ UNCHANGED <<connection_pool, session, log, stats, sleeps, warnings>>

\* disconnect_nebula when the interrupt arrives: before session.release(), between
\* it and connection_pool.close(), or after both; it does not return
InterruptedDisconnect ==
    /\ pc = "disconnect_nebula"
    /\ \E reached \in {"start", "released", "closed"} :
        /\ session' = IF reached # "start" /\ session = "acquired"
                      THEN "released" ELSE session
        /\ connection_pool' = IF reached = "closed" /\ connection_pool # "none"
                              THEN "closed" ELSE connection_pool
    /\ UNCHANGED <<log, stats, sleeps, warnings, printed>>

\* the other steps change nothing that is kept between their start and their end
InterruptedElsewhere ==
    /\ \/ pc \in (RunSteps \cup {"main", "done", "except_keyboard_interrupt"})
                    \ {"connect_nebula", "execute_query", "validate_import",
                       "print_statistics"}
       \/ pc = "validate_import" /\ ~(HasValidateData /\ config.validate_data)
    /\ UNCHANGED <<connection_pool, session, log, stats, sleeps, warnings, printed>>

\* the exit status of a process that a KeyboardInterrupt nothing catches has ended:
\* the interpreter ends it with SIGINT
KilledBySigint == -2

\* no handler of main catches an interrupt here: before the try block (the banner,
\* the test of the config file, the constructor), inside `except Exception` or
\* `except KeyboardInterrupt` (run has raised or was interrupted, or an interrupt
\* was caught after run returned), and while sys.exit(0) or sys.exit(1) of the try
\* block is leaving main
Uncaught ==
    pc \in {"main", "done", "except_keyboard_interrupt"}

\* a KeyboardInterrupt in main, at any point of the step under way.
\* Where nothing catches it the process is killed.  Inside the try block of run it
\* is not caught there (it is not an Exception): the finally clause runs and run
\* does not return; this is also so when a step has returned and run has not yet
\* returned its value.  Inside the finally clause, or after run has returned and
\* before sys.exit, it is caught by `except KeyboardInterrupt` of main, which then
\* prints and exits (Exit).  A call of execute_query that was under way is
\* abandoned.
KeyboardInterrupt ==
    /\ pc \in RunSteps \cup {"main", "disconnect_nebula", "done",
                              "except_keyboard_interrupt"}
    /\ interrupted' = TRUE
    /\ call' = NoCall
    /\ \/ /\ Uncaught
          /\ result' \in IF pc = "main" THEN {"interrupted"} ELSE {result, "interrupted"}
          /\ pc' = "exited"
          /\ exit_code' = KilledBySigint
          /\ InterruptedElsewhere
       \/ /\ pc \in RunSteps
          /\ result' = "interrupted"
          /\ pc' = "disconnect_nebula"
          /\ exit_code' = exit_code
          /\ \/ InterruptedConnect
             \/ InterruptedExecute
             \/ InterruptedValidate
             \/ InterruptedPrint
             \/ InterruptedElsewhere
       \/ /\ pc = "disconnect_nebula"
          /\ result \in {"True", "False"}
          /\ result' = "interrupted"
          /\ pc' = "disconnect_nebula"
          /\ exit_code' = exit_code
          /\ UNCHANGED <<connection_pool, session, log, stats, sleeps, warnings, printed>>
       \/ /\ pc = "disconnect_nebula"
          /\ result' = "interrupted"
          /\ pc' = "except_keyboard_interrupt"
          /\ exit_code' = exit_code
          /\ InterruptedDisconnect
       \/ /\ pc = "done"
          /\ result \in {"True", "False"}
          /\ result' \in {result, "interrupted"}
          /\ pc' = "except_keyboard_interrupt"
          /\ exit_code' = exit_code
          /\ InterruptedElsewhere
    /\ UNCHANGED <<arg, ret, queue, config, files, entities_df, relationships_df,
                   loopIdx, batchStart, steps>>

\* session.release() or connection_pool.close() raises in the finally clause of run:
\* the exception leaves run; close() is reached when release() has returned or the
\* session was never acquired
DisconnectRaises ==
    /\ pc = "disconnect_nebula"
    /\ \/ /\ session = "acquired"
          /\ session' = session
       \/ /\ connection_pool # "none"
          /\ session' = IF session = "acquired" THEN "released" ELSE session
    /\ result' = "raised"
    /\ pc' = "done"
    /\ UNCHANGED <<interrupted, exit_code, arg, ret, queue, config, files, connection_pool,
                   entities_df, relationships_df, stats, loopIdx, batchStart,
                   call, log, sleeps, warnings, steps, printed>>

\* variant: the process exits with 0 whatever run did
ExitAlwaysZero ==
    /\ pc \in {"done", "except_keyboard_interrupt"}
    /\ exit_code' = 0
    /\ pc' = "exited"
    /\ UNCHANGED <<interrupted, arg, ret, queue, config, files, connection_pool, session,
                   entities_df, relationships_df, stats, loopIdx, batchStart, call,
                   log, sleeps, warnings, steps, printed, result>>

\* sys.exit(0) if run returned True; sys.exit(1) if it returned False, and in the
\* except clauses: for an exception that left run, for an interrupt that left run
\* and for an interrupt caught after run had returned
Exit ==
    /\ pc \in {"done", "except_keyboard_interrupt"}
    /\ exit_code' = IF pc = "done" /\ result = "True" THEN 0 ELSE 1
    /\ pc' = "exited"
    /\ UNCHANGED <<interrupted, arg, ret, queue, config, files, connection_pool, session,
                   entities_df, relationships_df, stats, loopIdx, batchStart, call,
                   log, sleeps, warnings, steps, printed, result>>

MainNext ==
    \/ Next
    \/ Main
    \/ KeyboardInterrupt
    \/ DisconnectRaises
    \/ Exit

MainSpec == MainInit /\ [][MainNext]_vars

(***************************************************************************)
(* Functions applied on their own: no run is in progress, arg is the       *)
(* argument and ret the value returned.                                    *)
(***************************************************************************)
NoRun ==
    /\ config = [batch_size |-> 1, max_retries |-> 0, validate_data |-> FALSE]
    /\ files = [entities |-> [status |-> "ok", rows |-> <<>>],
                relationships |-> [status |-> "ok", rows |-> <<>>]]
    /\ connection_pool = "none"
    /\ session = "none"
    /\ entities_df = <<>>
    /\ relationships_df = <<>>
    /\ stats = InitStats
    /\ loopIdx = 1
    /\ batchStart = 0
    /\ call = NoCall
    /\ log = <<>>
    /\ sleeps = 0
    /\ warnings = 0
    /\ steps = <<>>
    /\ printed = FALSE
    /\ result = "none"
    /\ exit_code = "none"
    /\ interrupted = FALSE
    /\ queue = <<>>

RECURSIVE Replace(_, _, _)
\* str.replace(old, new) for a single character old
Replace(chars, old, new) ==
    IF chars = <<>> THEN <<>>
    ELSE (IF Head(chars) = old THEN new ELSE <<Head(chars)>>)
         \o Replace(Tail(chars), old, new)

\* variant: the backslash is escaped after the other characters
EscapeStringBackslashLast(value) ==
    IF IsNa(value) THEN <<>>
    ELSE Replace(Replace(Replace(Replace(Replace(value.v,
             "DQ", <<"BS", "DQ">>),
             "NL", <<"BS", "n">>),
             "CR", <<"BS", "r">>),
             "TAB", <<"BS", "t">>),
             "BS", <<"BS", "BS">>)

\* escape_string: "" for a missing value, else backslash, double quote, newline,
\* carriage return and tab are replaced in this order.  A character is written by
\* name: "BS" backslash, "DQ" double quote, "NL", "CR", "TAB"; other characters
\* stand for themselves.
EscapeString(value) ==
    IF IsNa(value) THEN <<>>
    ELSE Replace(Replace(Replace(Replace(Replace(value.v,
             "BS", <<"BS", "BS">>),
             "DQ", <<"BS", "DQ">>),
             "NL", <<"BS", "n">>),
             "CR", <<"BS", "r">>),
             "TAB", <<"BS", "t">>)

\* the values escape_string is applied to: every string of at most MaxValueLen
\* characters, and the missing value
ValueChars == {"BS", "DQ", "NL", "CR", "TAB", "n", "x"}

Values == {S(chars) : chars \in SeqsUpTo(ValueChars, MaxValueLen)} \cup {NaN}

EscapeInit ==
    /\ pc = "escape_string"
    /\ arg \in Values
    /\ ret = "none"
    /\ NoRun

EscapeStringCall ==
    /\ pc = "escape_string"
    /\ ret' = EscapeString(arg)
    /\ pc' = "escaped"
    /\ UNCHANGED <<interrupted, exit_code, arg, queue, config, files, connection_pool, session,
                   entities_df, relationships_df, stats, loopIdx, batchStart,
                   call, log, sleeps, warnings, steps, printed, result>>

EscapeNext == EscapeStringCall

EscapeSpec == EscapeInit /\ [][EscapeNext]_vars

(***************************************************************************)
(* The query request of the service: its construction from the fields      *)
(* given, and to_payload.                                                  *)
(***************************************************************************)
\* Python values: a field that is not given, None, and strings, integers, booleans
Absent == [k |-> "absent"]
PyNone == [k |-> "none"]
PyStr(chars) == [k |-> "str", v |-> chars]
PyInt(n) == [k |-> "int", v |-> n]
PyBool(b) == [k |-> "bool", v |-> b]

\* the root of a POSIX path: "/" for a leading slash, "//" for exactly two
SplitRoot(chars) ==
    IF chars = <<>> \/ chars[1] # "/" THEN <<>>
    ELSE IF Len(chars) >= 2 /\ chars[2] = "/" /\ ~(Len(chars) >= 3 /\ chars[3] = "/")
    THEN <<"/", "/">>
    ELSE <<"/">>

RECURSIVE SplitSep(_)
\* str.split('/')
SplitSep(chars) ==
    IF \A i \in 1..Len(chars) : chars[i] # "/" THEN <<chars>>
    ELSE LET i == CHOOSE j \in 1..Len(chars) :
                     chars[j] = "/" /\ \A m \in 1..(j - 1) : chars[m] # "/"
         IN <<SubSeq(chars, 1, i - 1)>> \o SplitSep(SubSeq(chars, i + 1, Len(chars)))

\* Path(value): the root, and the components that are neither empty nor "."
PathOf(chars) ==
    [k |-> "path",
     root |-> SplitRoot(chars),
     parts |-> SelectSeq(SplitSep(chars), LAMBDA c : c # <<>> /\ c # <<".">>)]

\* the home directory of the user of the process
HomeDir == [k |-> "path", root |-> <<"/">>, parts |-> << <<"h">> >>]

\* Path.expanduser(): a first component "~" of a relative path is replaced by the
\* home directory; "~name" is the home of a user that does not exist here
ExpandUser(path) ==
    IF path.root = <<>> /\ path.parts # <<>> /\ Head(Head(path.parts)) = "~"
    THEN IF Head(path.parts) = <<"~">>
         THEN [k |-> "path", root |-> HomeDir.root,
               parts |-> HomeDir.parts \o Tail(path.parts)]
         ELSE [k |-> "RuntimeError"]
    ELSE path

RECURSIVE JoinParts(_)
\* '/'.join(parts)
JoinParts(parts) ==
    IF parts = <<>> THEN <<>>
    ELSE IF Len(parts) = 1 THEN Head(parts)
    ELSE Head(parts) \o <<"/">> \o JoinParts(Tail(parts))

\* str(path)
PathStr(path) ==
    IF path.root = <<>> /\ path.parts = <<>> THEN <<".">>
    ELSE path.root \o JoinParts(path.parts)

\* _expand_root
ExpandRoot(value) ==
    IF value.k = "str" THEN ExpandUser(PathOf(value.v)) ELSE value

\* variant: only None is taken for an optional path that is not given
ExpandOptionalPathsKeepsEmpty(value) ==
    IF value.k = "none" THEN PyNone
    ELSE IF value.k = "str" THEN ExpandUser(PathOf(value.v))
    ELSE value

\* _expand_optional_paths: None and "" give None
ExpandOptionalPaths(value) ==
    IF value.k = "none" \/ (value.k = "str" /\ value.v = <<>>) THEN PyNone
    ELSE IF value.k = "str" THEN ExpandUser(PathOf(value.v))
    ELSE value

\* the members of SearchMethod and their values
SearchMethods == {"LOCAL", "GLOBAL", "DRIFT", "BASIC"}

SearchMethodValue(member) ==
    CASE member = "LOCAL" -> <<"local">>
      [] member = "GLOBAL" -> <<"global">>
      [] member = "DRIFT" -> <<"drift">>
      [] member = "BASIC" -> <<"basic">>

\* the value of a field that has a default
OrDefault(value, default) == IF value.k = "absent" THEN default ELSE value

\* QueryRequest(**fields): the request, or the exception the construction raises.
\* A validator that runs before the type check is not run for a field that is not
\* given; an exception of expanduser is not a validation error and leaves at once.
QueryRequest(fields) ==
    LET rootPath == ExpandRoot(fields.root)
        configPath == IF fields.config.k = "absent" THEN PyNone
                  ELSE ExpandOptionalPaths(fields.config)
        dataPath == IF fields.data.k = "absent" THEN PyNone
                ELSE ExpandOptionalPaths(fields.data)
        level == OrDefault(fields.community_level, PyInt(2))
    IN
    IF "RuntimeError" \in {rootPath.k, configPath.k, dataPath.k} THEN [k |-> "RuntimeError"]
    ELSE IF \/ rootPath.k # "path"
            \/ fields.query.k # "str" \/ fields.query.v = <<>>
            \/ (level.k = "int" /\ level.v < 0)
    THEN [k |-> "ValidationError"]
    ELSE [k |-> "request",
          root |-> rootPath,
          config |-> configPath,
          data |-> dataPath,
          method |-> OrDefault(fields.method, PyStr(<<"LOCAL">>)).v[1],
          query |-> fields.query,
          community_level |-> level,
          dynamic_community_selection |->
              OrDefault(fields.dynamic_community_selection, PyBool(FALSE)),
          response_type |-> OrDefault(fields.response_type,
                                      PyStr(<<"Multiple Paragraphs">>)),
          streaming |-> OrDefault(fields.streaming, PyBool(FALSE)),
          verbose |-> OrDefault(fields.verbose, PyBool(FALSE))]

\* QueryRequest.to_payload
ToPayload(request) ==
    [root |-> PyStr(PathStr(request.root)),
     config |-> IF request.config.k = "path" THEN PyStr(PathStr(request.config))
                ELSE PyNone,
     data |-> IF request.data.k = "path" THEN PyStr(PathStr(request.data))
              ELSE PyNone,
     method |-> PyStr(SearchMethodValue(request.method)),
     query |-> request.query,
     community_level |-> request.community_level,
     dynamic_community_selection |-> request.dynamic_community_selection,
     response_type |-> request.response_type,
     streaming |-> request.streaming,
     verbose |-> request.verbose]

\* the paths given: every string of at most MaxPathLen characters
PathChars == {"~", "/", "a", "."}

PathValues == {PyStr(chars) : chars \in SeqsUpTo(PathChars, MaxPathLen)}

\* the optional paths given: not given, None, the empty string, short paths
OptionalPathValues ==
    {Absent, PyNone} \cup {PyStr(chars) : chars \in SeqsUpTo(PathChars, 1)}
                     \cup {PyStr(<<"~", "/", "a">>)}

\* the fields given: either the paths vary and the other fields are left to their
\* defaults, or the other fields vary
PathFields ==
    [root : PathValues \cup {Absent},
     config : OptionalPathValues,
     data : OptionalPathValues,
     method : {Absent},
     query : {PyStr(<<"q">>)},
     community_level : {Absent},
     dynamic_community_selection : {Absent},
     response_type : {Absent},
     streaming : {Absent},
     verbose : {Absent}]

OtherFields ==
    [root : {PyStr(<<"a">>)},
     config : {Absent},
     data : {Absent},
     method : {Absent} \cup {PyStr(<<m>>) : m \in SearchMethods},
     query : {Absent, PyStr(<<>>), PyStr(<<"q">>)},
     community_level : {Absent, PyNone, PyInt(0), PyInt(3), PyInt(-1)},
     dynamic_community_selection : {Absent, PyBool(TRUE)},
     response_type : {Absent, PyStr(<<"x">>)},
     streaming : {Absent, PyBool(TRUE), PyBool(FALSE)},
     verbose : {Absent, PyBool(TRUE)}]

PayloadInit ==
    /\ pc = "query_request"
    /\ arg \in PathFields \cup OtherFields
    /\ ret = "none"
    /\ NoRun

\* the request is constructed from the fields given
NewQueryRequest ==
    /\ pc = "query_request"
    /\ ret' = [request |-> QueryRequest(arg)]
    /\ pc' = IF QueryRequest(arg).k = "request" THEN "to_payload" ELSE "raised"
    /\ UNCHANGED <<interrupted, exit_code, arg, queue, config, files, connection_pool, session,
                   entities_df, relationships_df, stats, loopIdx, batchStart,
                   call, log, sleeps, warnings, steps, printed, result>>

\* to_payload is called on the request
ToPayloadCall ==
    /\ pc = "to_payload"
    /\ ret' = [request |-> ret.request, payload |-> ToPayload(ret.request)]
    /\ pc' = "payload"
    /\ UNCHANGED <<interrupted, exit_code, arg, queue, config, files, connection_pool, session,
                   entities_df, relationships_df, stats, loopIdx, batchStart,
                   call, log, sleeps, warnings, steps, printed, result>>

PayloadNext ==
    \/ NewQueryRequest
    \/ ToPayloadCall

PayloadSpec == PayloadInit /\ [][PayloadNext]_vars

(***************************************************************************)
(* The service: POST /index, /update and /query check the project root and *)
(* the paths of the request against the file system and enqueue a task.    *)
(***************************************************************************)
\* the file system of the service, without symbolic links: a path is the sequence
\* of its components from "/".  /w/p is a project with a config file c and an
\* output directory o; /e is a directory outside of it with a file c; the working
\* directory of the service is /w and the home directory /h.
FsDirs == { <<>>, << <<"w">> >>, << <<"w">>, <<"p">> >>, << <<"w">>, <<"p">>, <<"o">> >>,
            << <<"e">> >>, << <<"h">> >> }

FsFiles == { << <<"w">>, <<"p">>, <<"c">> >>, << <<"e">>, <<"c">> >> }

Cwd == << <<"w">> >>

RECURSIVE Collapse(_, _)
\* the ".." components of an absolute path, taken away with the component before
Collapse(parts, acc) ==
    IF parts = <<>> THEN acc
    ELSE IF Head(parts) = <<".", ".">>
    THEN Collapse(Tail(parts), IF acc = <<>> THEN <<>> ELSE SubSeq(acc, 1, Len(acc) - 1))
    ELSE Collapse(Tail(parts), Append(acc, Head(parts)))

\* Path.resolve(): absolute, from the working directory for a relative path, and
\* without ".."
Resolve(path) ==
    Collapse((IF path.root = <<>> THEN Cwd ELSE <<>>) \o path.parts, <<>>)

\* str() of a resolved path
ResolvedStr(parts) == PathStr([k |-> "path", root |-> <<"/">>, parts |-> parts])

\* Path.is_relative_to
IsRelativeTo(parts, other) ==
    Len(other) <= Len(parts) /\ SubSeq(parts, 1, Len(other)) = other

\* ServiceSettings.is_root_allowed: every root when the list is empty
IsRootAllowed(allowed_roots, resolved) ==
    \/ allowed_roots = <<>>
    \/ \E i \in 1..Len(allowed_roots) : IsRelativeTo(resolved, allowed_roots[i])

\* a value returned, and an HTTPException raised
Returned(v) == [k |-> "ok", v |-> v]
HttpError(code) == [k |-> "http", status |-> code]

\* _ensure_root_allowed
EnsureRootAllowed(root, allowed_roots) ==
    LET resolved == Resolve(ExpandUser(root)) IN
    IF resolved \notin FsDirs THEN HttpError(400)
    ELSE IF ~IsRootAllowed(allowed_roots, resolved) THEN HttpError(403)
    ELSE Returned(resolved)

\* _normalize_child_path, root being resolved already: None for None, the resolved
\* path for an absolute path, and for a relative path the path under the root (under
\* its parent when the path starts with the name of the root), refused when it
\* leaves the root
NormalizeChildPath(root, path) ==
    IF path.k = "none" THEN Returned(PyNone)
    ELSE LET candidate == ExpandUser(path) IN
         IF candidate.root # <<>>
         THEN Returned([k |-> "resolved", parts |-> Resolve(candidate)])
         ELSE LET base == IF candidate.parts # <<>> /\ root # <<>>
                             /\ Head(candidate.parts) = root[Len(root)]
                          THEN SubSeq(root, 1, Len(root) - 1) ELSE root
                  resolved == Collapse(base \o candidate.parts, <<>>)
              IN IF ~IsRelativeTo(resolved, root) THEN HttpError(400)
                 ELSE Returned([k |-> "resolved", parts |-> resolved])

\* IndexRequest(**fields), the fields other than the paths left to their defaults
IndexRequest(fields) ==
    LET rootPath == ExpandRoot(fields.root)
        configPath == IF fields.config.k = "absent" THEN PyNone
                      ELSE ExpandOptionalPaths(fields.config)
        outputPath == IF fields.output.k = "absent" THEN PyNone
                      ELSE ExpandOptionalPaths(fields.output)
    IN
    IF "RuntimeError" \in {rootPath.k, configPath.k, outputPath.k}
    THEN [k |-> "RuntimeError"]
    ELSE IF rootPath.k # "path" THEN [k |-> "ValidationError"]
    ELSE [k |-> "request", root |-> rootPath, config |-> configPath,
          output |-> outputPath, method |-> "Standard",
          verbose |-> PyBool(FALSE), memprofile |-> PyBool(FALSE),
          cache |-> PyBool(TRUE), skip_validation |-> PyBool(FALSE)]

\* IndexRequest.to_payload
IndexToPayload(request, is_update) ==
    [root |-> PyStr(PathStr(request.root)),
     config |-> IF request.config.k = "path" THEN PyStr(PathStr(request.config))
                ELSE PyNone,
     method |-> PyStr(<<"standard">>),
     verbose |-> request.verbose,
     memprofile |-> request.memprofile,
     cache |-> request.cache,
     skip_validation |-> request.skip_validation,
     output |-> IF request.output.k = "path" THEN PyStr(PathStr(request.output))
                ELSE PyNone,
     is_update |-> PyBool(is_update)]

\* str(path) if path else None
StrOrNone(path) == IF path.k = "resolved" THEN PyStr(ResolvedStr(path.parts)) ELSE PyNone

\* submit_index and submit_update: the response status and the payload enqueued.
\* The RuntimeError of expanduser() for "~name" of a user that does not exist leaves
\* the validator of the request and the application: 500; a value that is not a
\* path is a validation error: 422
SubmitIndexOutcome(fields, allowed_roots, is_update) ==
    LET request == IndexRequest(fields) IN
    IF request.k = "RuntimeError" THEN [status |-> 500, enqueued |-> <<>>]
    ELSE IF request.k # "request" THEN [status |-> 422, enqueued |-> <<>>]
    ELSE LET rootChecked == EnsureRootAllowed(request.root, allowed_roots) IN
    IF rootChecked.k = "http" THEN [status |-> rootChecked.status, enqueued |-> <<>>]
    ELSE LET config_path == NormalizeChildPath(rootChecked.v, request.config) IN
    IF config_path.k = "http" THEN [status |-> config_path.status, enqueued |-> <<>>]
    ELSE LET output_path == NormalizeChildPath(rootChecked.v, request.output) IN
    IF output_path.k = "http" THEN [status |-> output_path.status, enqueued |-> <<>>]
    ELSE IF config_path.v.k = "resolved" /\ config_path.v.parts \notin FsFiles
    THEN [status |-> 400, enqueued |-> <<>>]
    ELSE IF /\ output_path.v.k = "resolved"
            /\ SubSeq(output_path.v.parts, 1, Len(output_path.v.parts) - 1)
                  \notin FsDirs \cup FsFiles
    THEN [status |-> 400, enqueued |-> <<>>]
    ELSE [status |-> 200,
          enqueued |-> << [IndexToPayload(request, is_update) EXCEPT
                             !.root = PyStr(ResolvedStr(rootChecked.v)),
                             !.config = StrOrNone(config_path.v),
                             !.output = StrOrNone(output_path.v)] >>]

\* submit_query: the response status and the payload enqueued
SubmitQueryOutcome(fields, allowed_roots) ==
    LET request == QueryRequest(fields) IN
    IF request.k = "RuntimeError" THEN [status |-> 500, enqueued |-> <<>>]
    ELSE IF request.k # "request" THEN [status |-> 422, enqueued |-> <<>>]
    ELSE LET rootChecked == EnsureRootAllowed(request.root, allowed_roots) IN
    IF rootChecked.k = "http" THEN [status |-> rootChecked.status, enqueued |-> <<>>]
    ELSE LET config_path == NormalizeChildPath(rootChecked.v, request.config) IN
    IF config_path.k = "http" THEN [status |-> config_path.status, enqueued |-> <<>>]
    ELSE LET data_path == NormalizeChildPath(rootChecked.v, request.data) IN
    IF data_path.k = "http" THEN [status |-> data_path.status, enqueued |-> <<>>]
    ELSE IF config_path.v.k = "resolved" /\ config_path.v.parts \notin FsFiles
    THEN [status |-> 400, enqueued |-> <<>>]
    ELSE IF data_path.v.k = "resolved" /\ data_path.v.parts \notin FsDirs
    THEN [status |-> 400, enqueued |-> <<>>]
    ELSE [status |-> 200,
          enqueued |-> << [ToPayload(request) EXCEPT
                             !.root = PyStr(ResolvedStr(rootChecked.v)),
                             !.config = StrOrNone(config_path.v),
                             !.data = StrOrNone(data_path.v)] >>]

\* the roots and the paths given in the requests
RootValues ==
    { PyStr(<<"/", "w", "/", "p">>), PyStr(<<"p">>), PyStr(<<"/", "w">>),
      PyStr(<<"/", "e">>), PyStr(<<"/", "x">>), PyStr(<<"~">>), PyStr(<<"~", "a">>),
      PyNone }

ChildValues ==
    { Absent, PyStr(<<>>),
      PyStr(<<"c">>), PyStr(<<"p", "/", "c">>), PyStr(<<"o">>), PyStr(<<"x">>),
      PyStr(<<".", ".", "/", "c">>),
      PyStr(<<".", ".", "/", ".", ".", "/", "e", "/", "c">>),
      PyStr(<<"/", "w", "/", "p", "/", "c">>), PyStr(<<"/", "w", "/", "p", "/", "o">>),
      PyStr(<<"/", "e", "/", "c">>), PyStr(<<"/", "e">>), PyStr(<<"~", "a">>) }

\* GRAPHRAG_ALLOWED_ROOTS: not set, /w, /e
AllowedRootsValues == { <<>>, << << <<"w">> >> >>, << << <<"e">> >> >> }

IndexFields ==
    [root : RootValues, config : ChildValues, output : ChildValues]

QueryFields ==
    [root : RootValues,
     config : ChildValues,
     data : ChildValues,
     method : {Absent},
     query : {PyStr(<<"q">>)},
     community_level : {Absent},
     dynamic_community_selection : {Absent},
     response_type : {Absent},
     streaming : {Absent},
     verbose : {Absent}]

ServiceInit ==
    /\ pc \in {"submit_index", "submit_update", "submit_query"}
    /\ arg \in [fields : IF pc = "submit_query" THEN QueryFields ELSE IndexFields,
                 allowed_roots : AllowedRootsValues]
    /\ ret = "none"
    /\ NoRun

\* POST /index
SubmitIndex ==
    /\ pc = "submit_index"
    /\ LET outcome == SubmitIndexOutcome(arg.fields, arg.allowed_roots, FALSE) IN
       /\ ret' = [status |-> outcome.status]
       /\ queue' = queue \o outcome.enqueued
    /\ pc' = "responded"
    /\ UNCHANGED <<interrupted, exit_code, arg, config, files, connection_pool, session,
                   entities_df, relationships_df, stats, loopIdx, batchStart,
                   call, log, sleeps, warnings, steps, printed, result>>

\* POST /update
SubmitUpdate ==
    /\ pc = "submit_update"
    /\ LET outcome == SubmitIndexOutcome(arg.fields, arg.allowed_roots, TRUE) IN
       /\ ret' = [status |-> outcome.status]
       /\ queue' = queue \o outcome.enqueued
    /\ pc' = "responded"
    /\ UNCHANGED <<interrupted, exit_code, arg, config, files, connection_pool, session,
                   entities_df, relationships_df, stats, loopIdx, batchStart,
                   call, log, sleeps, warnings, steps, printed, result>>

\* POST /query
SubmitQuery ==
    /\ pc = "submit_query"
    /\ LET outcome == SubmitQueryOutcome(arg.fields, arg.allowed_roots) IN
       /\ ret' = [status |-> outcome.status]
       /\ queue' = queue \o outcome.enqueued
    /\ pc' = "responded"
    /\ UNCHANGED <<interrupted, exit_code, arg, config, files, connection_pool, session,
                   entities_df, relationships_df, stats, loopIdx, batchStart,
                   call, log, sleeps, warnings, steps, printed, result>>

ServiceNext ==
    \/ SubmitIndex
    \/ SubmitUpdate
    \/ SubmitQuery

ServiceSpec == ServiceInit /\ [][ServiceNext]_vars

(***************************************************************************)
(* Properties.                                                             *)
(***************************************************************************)
\* the log entries written by execute_query (the others are direct session.execute calls)
Retried == {n \in 1..Len(log) : log[n].then # "direct"}

SameQuery(e, f) == e.kind = f.kind /\ e.tag = f.tag /\ e.rows = f.rows

\* the entries n - k .. n - 1 are the failed attempts 0 .. k - 1 of the query of entry n,
\* each followed by a retry
PrecededByFailures(n, k) ==
    /\ n > k
    /\ \A j \in 0..k - 1 :
          LET e == log[n - k + j] IN
          SameQuery(e, log[n]) /\ e.attempt = j /\ ~e.ok /\ e.then = "retry"

\* C1: a statement whose every attempt fails (failure reported by the store or
\* exception raised) is attempted exactly max_retries + 1 times, and then
\* execute_query returns failure: a failed attempt ends the call exactly when it
\* is attempt number max_retries, a call that returned failure consists of the
\* max_retries + 1 failed attempts 0 .. max_retries, and a failed attempt that
\* did not end the call is followed by the next attempt of the same statement.
C1_RetryExhaustion ==
    /\ pc = "execute_query" => call.attempt <= config.max_retries
    /\ \A n \in Retried :
          ~log[n].ok =>
             /\ log[n].then = (IF log[n].attempt = config.max_retries THEN "False" ELSE "retry")
             /\ PrecededByFailures(n, log[n].attempt)
             /\ log[n].then = "retry" =>
                   IF n = Len(log)
                   THEN pc = "execute_query" /\ call.attempt = log[n].attempt + 1
                        /\ SameQuery(call.query, log[n])
                   ELSE log[n + 1].attempt = log[n].attempt + 1 /\ SameQuery(log[n + 1], log[n])
             /\ log[n].then = "False" =>
                   IF n = Len(log) THEN (pc = "execute_query" => call.attempt = 0)
                   ELSE log[n + 1].attempt = 0

\* a call with a budget of at least two retries has used it up and returned failure
C1_Witness ==
    /\ config.max_retries >= 2
    /\ \E n \in Retried : log[n].then = "False" /\ log[n].attempt = config.max_retries
    /\ Len(stats.errors) > 0

\* C2: a statement that fails k < max_retries times and then succeeds makes
\* execute_query return success after exactly k + 1 attempts: the successful attempt
\* number k comes after the failed attempts 0 .. k - 1 of the same statement,
\* it ends the call with True, and no further attempt of the call follows.
C2_SuccessAfterFailures ==
    \A n \in Retried :
        (log[n].ok /\ log[n].attempt < config.max_retries) =>
            /\ log[n].then = "True"
            /\ PrecededByFailures(n, log[n].attempt)
            /\ IF n = Len(log) THEN (pc = "execute_query" => call.attempt = 0)
                   ELSE log[n + 1].attempt = 0

\* a call succeeded at its third attempt, with attempts to spare
C2_Witness ==
    \E n \in Retried :
        log[n].ok /\ log[n].attempt = 2 /\ log[n].attempt < config.max_retries
        /\ log[n].then = "True" /\ n < Len(log)

\* the sanitized names of the categories of the entity table that get a schema object
Categories == {Sanitize(entities_df[n].type.v) :
                  n \in {m \in 1..Len(entities_df) : ~SkipsType(entities_df[m].type)}}

\* C3: when an INSERT VERTEX statement is issued, the schema-creation statement of
\* every category of the table has succeeded earlier in the run, no schema-creation
\* call has failed and none is issued later; every row of the statement belongs to
\* the category of the statement.
C3_SchemaBeforeInsert ==
    LET inserts == {n \in 1..Len(log) : log[n].kind = "INSERT_VERTEX"}
        first == CHOOSE n \in inserts : \A m \in inserts : n <= m
        cats == Categories
    IN inserts # {} =>
          /\ \A c \in cats :
                \E m \in 1..first - 1 :
                   log[m].kind = "CREATE_TAG" /\ log[m].tag = c /\ log[m].ok
          /\ \A m \in 1..Len(log) :
                log[m].kind = "CREATE_TAG" => m < first /\ log[m].then # "False"
          /\ \A n \in inserts :
                /\ log[n].tag \in cats
                /\ \A r \in 1..Len(log[n].rows) :
                      /\ ~SkipsType(entities_df[log[n].rows[r]].type)
                      /\ Sanitize(entities_df[log[n].rows[r]].type.v) = log[n].tag

\* vertices are inserted in a run whose table has two categories, one of which was
\* created only at the second attempt
C3_Witness ==
    /\ Cardinality(Categories) >= 2
    /\ \E n \in 1..Len(log) : log[n].kind = "INSERT_VERTEX"
    /\ \E n \in 1..Len(log) : log[n].kind = "CREATE_TAG" /\ ~log[n].ok

\* C4: once a schema-creation call has failed with its retries exhausted, no further
\* statement of any kind is issued (no schema creation, insert, count or undo), the
\* run goes to the disconnect step and returns failure.
C4_SchemaFailureAborts ==
    \A n \in 1..Len(log) :
        (log[n].kind = "CREATE_TAG" /\ log[n].then = "False") =>
            /\ n = Len(log)
            /\ pc \in {"disconnect_nebula", "done"}
            /\ result = "False"
            /\ call = NoCall

\* the second category's schema creation failed after a first one had been created
C4_Witness ==
    /\ pc = "done"
    /\ \E n \in 1..Len(log) : log[n].kind = "CREATE_TAG" /\ log[n].then = "False"
    /\ \E n \in 1..Len(log) : log[n].kind = "CREATE_TAG" /\ log[n].then = "True"

\* every numeric cell that is rendered into a statement converts
InputConverts ==
    /\ \A n \in 1..Len(entities_df) :
          ~SkipsType(entities_df[n].type) => ConvertsToNumber(entities_df[n].frequency)
    /\ \A n \in 1..Len(relationships_df) :
          ValidRel(relationships_df[n]) => ConvertsToNumber(relationships_df[n].weight)

\* the insert calls that returned failure
FailedInserts ==
    {n \in 1..Len(log) : log[n].kind \in {"INSERT_VERTEX", "INSERT_EDGE"} /\ log[n].then = "False"}

\* C5: an insert batch that fails with its retries exhausted is recorded in the error
\* list and does not stop the run: a run whose schema sync succeeded (and whose rows
\* render) ends with every entity row that has a category and every relationship row
\* that has both keys issued in some insert statement, with the relationship import
\* and the validation done, the statistics printed and run returning success,
\* however many insert batches failed.
C5_InsertFailureRecoverable ==
    /\ Cardinality(FailedInserts) <= Len(stats.errors)
    /\ (FailedInserts # {} /\ InputConverts) => result # "False"
    /\ (pc = "done" /\ InputConverts
          /\ \E k \in 1..Len(steps) : steps[k] = [name |-> "create_dynamic_tags", ok |-> TRUE]) =>
            /\ result = "True"
            /\ printed
            /\ \E k \in 1..Len(steps) : steps[k] = [name |-> "import_entities", ok |-> TRUE]
            /\ \E k \in 1..Len(steps) : steps[k] = [name |-> "import_relationships", ok |-> TRUE]
            /\ \E k \in 1..Len(steps) : steps[k].name = "validate_import"
            /\ \A r \in 1..Len(entities_df) :
                  ~SkipsType(entities_df[r].type) =>
                     \E n \in 1..Len(log) :
                        log[n].kind = "INSERT_VERTEX"
                        /\ \E m \in 1..Len(log[n].rows) : log[n].rows[m] = r
            /\ \A r \in 1..Len(relationships_df) :
                  ValidRel(relationships_df[r]) =>
                     \E n \in 1..Len(log) :
                        log[n].kind = "INSERT_EDGE"
                        /\ \E m \in 1..Len(log[n].rows) : log[n].rows[m] = r

\* a run returned success although each of its insert calls, two vertex batches and
\* an edge batch, failed
C5_Witness ==
    /\ pc = "done" /\ result = "True"
    /\ Cardinality({n \in FailedInserts : log[n].kind = "INSERT_VERTEX"}) >= 2
    /\ \E n \in FailedInserts : log[n].kind = "INSERT_EDGE"
    /\ \A n \in 1..Len(log) : log[n].kind \in {"INSERT_VERTEX", "INSERT_EDGE"} => ~log[n].ok
    /\ Len(stats.errors) >= 3

\* C6: control is back at the caller of run only after the disconnect step has run
\* (once, as the last step), whatever step failed; the session and the connection
\* pool are then released, and a value is returned only through the disconnect step.
C6_DisconnectAlways ==
    /\ result # "none" => pc \in {"disconnect_nebula", "done"}
    /\ pc = "done" =>
          /\ steps # <<>> /\ steps[Len(steps)].name = "disconnect_nebula"
          /\ session # "acquired"
          /\ connection_pool \notin {"created", "open"}
          /\ result # "none"
    /\ pc # "done" => \A k \in 1..Len(steps) : steps[k].name # "disconnect_nebula"

\* back at the caller after a failed entity import, with session and pool released
C6_Witness ==
    /\ pc = "done" /\ result = "False"
    /\ session = "released" /\ connection_pool = "closed"
    /\ \E k \in 1..Len(steps) : steps[k] = [name |-> "import_entities", ok |-> FALSE]

\* C7 as claimed: the statistics are printed on every outcome of run.
C7_StatisticsOnEveryOutcome == pc = "done" => printed

\* C7: the statistics are printed exactly in the runs that return success; a run
\* that fails at any step returns without printing them.
C7_StatisticsOnlyOnSuccess ==
    /\ pc = "done" => (printed <=> result = "True")
    /\ printed => result = "True"
    /\ result = "False" => ~printed

\* a run that failed after it had counted a batch is back at the caller, nothing printed
C7_Witness ==
    /\ pc = "done" /\ result = "False" /\ ~printed
    /\ stats.entities_processed > 0

StepOrder == <<"connect_nebula", "load_parquet_data", "create_dynamic_tags",
               "import_entities", "import_relationships", "validate_import">>

\* the step of run that is executing, "none" between validate_import and the return
RunningStep ==
    CASE pc = "execute_query" -> call.caller
      [] pc = "entities_processed" -> "import_entities"
      [] pc = "relationships_processed" -> "import_relationships"
      [] pc \in {"print_statistics", "done"} -> "none"
      [] OTHER -> pc

\* C8: the steps are started in the order connect, read tables, schema sync, import
\* entities, import relationships, validate, each one only when all the steps before
\* it have reported success; after a step reported failure only disconnect is started.
C8_StepsSequential ==
    /\ \A k \in 1..Len(steps) :
          /\ steps[k].name # "disconnect_nebula" => (k <= Len(StepOrder) /\ steps[k].name = StepOrder[k])
          /\ steps[k].name = "disconnect_nebula" => k = Len(steps)
          /\ (~steps[k].ok /\ steps[k].name # "validate_import") =>
                /\ RunningStep \in {"disconnect_nebula", "none"}
                /\ pc # "print_statistics"
                /\ k + 1 <= Len(steps) => steps[k + 1].name = "disconnect_nebula"
    /\ RunningStep \in {StepOrder[k] : k \in 1..Len(StepOrder)} =>
          /\ Len(steps) < Len(StepOrder)
          /\ RunningStep = StepOrder[Len(steps) + 1]
          /\ \A k \in 1..Len(steps) : steps[k].ok

\* the relationship import has started after four steps that reported success, and fails
C8_Witness ==
    /\ Len(steps) = 6
    /\ steps[5] = [name |-> "import_relationships", ok |-> FALSE]
    /\ steps[6].name = "disconnect_nebula"
    /\ \E n \in 1..Len(log) : log[n].kind = "INSERT_EDGE"

\* C9: once the relationship import has completed, the run returns success, whatever
\* the validation does: a count query that fails, a count that differs from the
\* expected one, or validate_import reporting failure after an exception.
C9_ValidationNeverFails ==
    (\E k \in 1..Len(steps) : steps[k] = [name |-> "import_relationships", ok |-> TRUE]) =>
        /\ result # "False"
        /\ pc = "done" => result = "True"

\* a run returned success after a count mismatch, a failed count query and an
\* exception that made validate_import report failure
C9_Witness ==
    /\ pc = "done" /\ result = "True"
    /\ \E k \in 1..Len(steps) : steps[k] = [name |-> "validate_import", ok |-> FALSE]
    /\ warnings > 0
    /\ \E n \in 1..Len(log) : log[n].kind = "COUNT_TAG" /\ ~log[n].ok /\ n < Len(log)

MissingInput ==
    files.entities.status = "missing" \/ files.relationships.status = "missing"

\* C10 as claimed: with an input file missing, the run aborts before connecting:
\* no connection pool is initialised and no session acquired.
C10_AbortsBeforeConnecting ==
    MissingInput => (connection_pool \in {"none", "created"} /\ session = "none")

\* C10: with an input file missing, the run aborts after connecting: the tables are
\* read only once connect_nebula has succeeded, so the pool has been initialised,
\* the session acquired and the namespace selected when the read fails; the read
\* reports failure and run returns failure.
C10_AbortsAfterConnecting ==
    (MissingInput /\ \E k \in 1..Len(steps) : steps[k].name = "load_parquet_data") =>
        /\ steps[1] = [name |-> "connect_nebula", ok |-> TRUE]
        /\ steps[2] = [name |-> "load_parquet_data", ok |-> FALSE]
        /\ session \in {"acquired", "released"}
        /\ connection_pool \in {"open", "closed"}
        /\ log # <<>> /\ log[1].kind = "USE" /\ log[1].ok
        /\ result = "False"

\* the read of a missing relationships file has failed with the session still held
C10_Witness ==
    /\ files.relationships.status = "missing" /\ files.entities.status = "ok"
    /\ pc = "disconnect_nebula"
    /\ session = "acquired" /\ connection_pool = "open"
    /\ steps[Len(steps)] = [name |-> "load_parquet_data", ok |-> FALSE]

\* the statements other than the namespace selection of connect_nebula
DataStatements == {n \in 1..Len(log) : log[n].kind # "USE"}

\* C11: a run one of whose input files is missing or corrupt never gets a table
\* loaded; when the read has failed, the connect step had succeeded before it, no
\* step was started after it, no schema-creation, insert or count statement is ever
\* issued, no counter moves, run returns failure and, back at the caller, the
\* session is released and the pool closed.
C11_LoadFailureAborts ==
    /\ (files.entities.status # "ok" \/ files.relationships.status # "ok") =>
          /\ \A k \in 1..Len(steps) : steps[k] # [name |-> "load_parquet_data", ok |-> TRUE]
          /\ entities_df = <<>> /\ relationships_df = <<>>
          /\ DataStatements = {}
    /\ (\E k \in 1..Len(steps) : steps[k] = [name |-> "load_parquet_data", ok |-> FALSE]) =>
          /\ steps[1] = [name |-> "connect_nebula", ok |-> TRUE]
          /\ steps[2] = [name |-> "load_parquet_data", ok |-> FALSE]
          /\ \A k \in 3..Len(steps) : steps[k].name = "disconnect_nebula"
          /\ pc \in {"disconnect_nebula", "done"}
          /\ call = NoCall
          /\ DataStatements = {}
          /\ stats = InitStats
          /\ result = "False"
          /\ pc = "done" => (session = "released" /\ connection_pool = "closed")

\* back at the caller after the read of a corrupt entities file failed: the only
\* statement of the run is the namespace selection, and the connection is released
C11_Witness ==
    /\ files.entities.status = "corrupt" /\ files.relationships.status = "ok"
    /\ Len(files.relationships.rows) > 0
    /\ pc = "done" /\ result = "False"
    /\ Len(log) = 1 /\ log[1].kind = "USE"
    /\ session = "released" /\ connection_pool = "closed"

\* the connect step has returned failure
ConnectFailed == steps # <<>> /\ steps[1] = [name |-> "connect_nebula", ok |-> FALSE]

\* C12: when connect_nebula fails (before the pool exists, at the pool's
\* initialisation, at the session acquisition or at the namespace selection) the run
\* goes to the disconnect step at once: no table is read, no schema-creation, insert
\* or count statement is ever issued, no counter moves and run returns failure.  A
\* namespace selection that fails, and a session that is not acquired, make the
\* connect step fail.
C12_ConnectFailureAborts ==
    /\ ConnectFailed =>
          /\ \A k \in 2..Len(steps) : steps[k].name = "disconnect_nebula"
          /\ entities_df = <<>> /\ relationships_df = <<>>
          /\ pc \in {"disconnect_nebula", "done"}
          /\ call = NoCall
          /\ DataStatements = {}
          /\ Len(log) <= 1
          /\ stats = InitStats
          /\ result = "False"
    /\ (steps # <<>> /\ (session = "none" \/ connection_pool \in {"none", "created"}
                          \/ (log # <<>> /\ ~log[1].ok))) => ConnectFailed

\* back at the caller after the namespace selection failed, with tables waiting in
\* both files
C12_Witness ==
    /\ pc = "done" /\ result = "False"
    /\ ConnectFailed
    /\ Len(log) = 1 /\ log[1].kind = "USE" /\ ~log[1].ok
    /\ session = "released"
    /\ Len(files.entities.rows) > 0 /\ Len(files.relationships.rows) > 0

\* C13 as claimed: in every state of a run, the states between the two counter
\* updates of a batch included, imported <= processed for entities and for
\* relationships.
C13_ImportedAtMostProcessed ==
    /\ stats.entities_imported <= stats.entities_processed
    /\ stats.relationships_imported <= stats.relationships_processed

\* C13: imported <= processed holds for entities and for relationships in every
\* state of a run except between the two counter updates of a batch: the imported
\* counter is updated first, so there it exceeds the processed counter by at most
\* the number of rows of the batch just inserted.
C13_ImportedAtMostProcessedBetweenBatches ==
    /\ pc # "entities_processed" => stats.entities_imported <= stats.entities_processed
    /\ pc = "entities_processed" =>
          stats.entities_imported <= stats.entities_processed + Len(EntityBatch)
    /\ pc # "relationships_processed" =>
          stats.relationships_imported <= stats.relationships_processed
    /\ pc = "relationships_processed" =>
          stats.relationships_imported <= stats.relationships_processed + Len(RelBatchValid)

\* a finished run: two vertex batches imported and counted, an edge batch counted
\* but not imported
C13_Witness ==
    /\ pc = "done"
    /\ stats.entities_imported = 2 /\ stats.entities_processed = 2
    /\ stats.relationships_imported = 0 /\ stats.relationships_processed = 1
    /\ Cardinality({n \in 1..Len(log) : log[n].kind = "INSERT_VERTEX" /\ log[n].ok}) = 2

\* C14: from one step of a run to the next, none of the four counters decreases,
\* and the error list keeps the messages it holds, in place: it only grows at its end.
C14_CountersMonotone ==
    [][ /\ stats'.entities_processed >= stats.entities_processed
        /\ stats'.entities_imported >= stats.entities_imported
        /\ stats'.relationships_processed >= stats.relationships_processed
        /\ stats'.relationships_imported >= stats.relationships_imported
        /\ Len(stats'.errors) >= Len(stats.errors)
        /\ SubSeq(stats'.errors, 1, Len(stats.errors)) = stats.errors ]_vars

\* a finished run in which all four counters have moved and a failed vertex batch
\* has left a message in the error list
C14_Witness ==
    /\ stats.entities_processed > stats.entities_imported
    /\ stats.entities_imported > 0
    /\ stats.relationships_processed > 0
    /\ stats.relationships_imported > 0
    /\ Len(stats.errors) > 0
    /\ pc = "done"

RECURSIVE RowsImported(_, _)
\* the rows of the insert calls of one kind, among the first n entries of the log,
\* that returned success
RowsImported(kind, n) ==
    IF n = 0 THEN 0
    ELSE RowsImported(kind, n - 1)
         + (IF log[n].kind = kind /\ log[n].then = "True" THEN Len(log[n].rows) ELSE 0)

\* the rows that have no place in a statement
BlankEntity(row) == IsNa(row.type) \/ row.type.v = <<>>
BlankRel(row) ==
    \/ IsNa(row.source) \/ row.source.v = <<>>
    \/ IsNa(row.target) \/ row.target.v = <<>>

\* C15: no INSERT VERTEX statement, issued or about to be, holds an entity row whose
\* type is missing or empty, and no INSERT EDGE statement holds a relationship row
\* whose source or target is missing or empty; each imported counter is the number
\* of rows of the insert calls that returned success, so that a blank row is never
\* added to it, and it never exceeds the number of rows that are not blank.
C15_BlankRowsExcluded ==
    /\ \A n \in 1..Len(log) :
          /\ log[n].kind = "INSERT_VERTEX" =>
                \A m \in 1..Len(log[n].rows) : ~BlankEntity(entities_df[log[n].rows[m]])
          /\ log[n].kind = "INSERT_EDGE" =>
                \A m \in 1..Len(log[n].rows) : ~BlankRel(relationships_df[log[n].rows[m]])
    /\ call.query.kind = "INSERT_VERTEX" =>
          \A m \in 1..Len(call.query.rows) : ~BlankEntity(entities_df[call.query.rows[m]])
    /\ call.query.kind = "INSERT_EDGE" =>
          \A m \in 1..Len(call.query.rows) : ~BlankRel(relationships_df[call.query.rows[m]])
    /\ stats.entities_imported = RowsImported("INSERT_VERTEX", Len(log))
    /\ stats.relationships_imported = RowsImported("INSERT_EDGE", Len(log))
    /\ stats.entities_imported
          <= Cardinality({n \in 1..Len(entities_df) : ~BlankEntity(entities_df[n])})
    /\ stats.relationships_imported
          <= Cardinality({n \in 1..Len(relationships_df) : ~BlankRel(relationships_df[n])})

\* a finished run over an entity table with a row of missing type after a row that
\* was imported, and a relationship table whose one batch held a row without target
\* beside the row that was imported
C15_Witness ==
    /\ pc = "done" /\ config.batch_size = 2
    /\ Len(entities_df) = 2 /\ IsNa(entities_df[2].type)
    /\ stats.entities_imported = 1
    /\ Len(relationships_df) = 2 /\ IsNa(relationships_df[1].target)
    /\ stats.relationships_imported = 1
    /\ \E n \in 1..Len(log) : log[n].kind = "INSERT_EDGE" /\ log[n].rows = <<2>> /\ log[n].ok

\* import_entities has returned True
EntitiesDone ==
    \E k \in 1..Len(steps) : steps[k] = [name |-> "import_entities", ok |-> TRUE]

\* the entity rows that are rendered into a statement: their type is neither missing
\* nor empty and keeps at least one character when it is cleaned
RenderedEntities == {n \in 1..Len(entities_df) : ~SkipsType(entities_df[n].type)}

\* C16 as claimed: after import_entities completes, entities_processed counts the
\* rows of blank type as well as the rows rendered into statements.
C16_ProcessedCountsBlankRows ==
    EntitiesDone =>
        stats.entities_processed
           = Cardinality(RenderedEntities
                           \cup {n \in 1..Len(entities_df) : BlankEntity(entities_df[n])})

\* C16: rows of blank type are not counted in the processed counter: after
\* import_entities completes, entities_processed is the number of rows that were
\* rendered into statements, whether their batch was imported or failed; before
\* that it is at most that number.
C16_ProcessedCountsRenderedRows ==
    /\ stats.entities_processed <= Cardinality(RenderedEntities)
    /\ EntitiesDone => stats.entities_processed = Cardinality(RenderedEntities)

\* import_entities has completed over a table of four rows, two of them of blank
\* type (one missing, one empty): two rows are counted, one of them in a failed batch
C16_Witness ==
    /\ EntitiesDone
    /\ Len(entities_df) = 4
    /\ \E n \in 1..4 : IsNa(entities_df[n].type)
    /\ \E n \in 1..4 : entities_df[n].type = S(<<>>)
    /\ stats.entities_processed = 2
    /\ stats.entities_imported = 1

\* import_relationships has returned True
RelationshipsDone ==
    \E k \in 1..Len(steps) : steps[k] = [name |-> "import_relationships", ok |-> TRUE]

\* C17: after import_relationships completes, relationships_processed is the number
\* of rows of the relationship table, the rows with an empty source or target
\* included, whatever the batch size.
C17_ProcessedCountsAllRows ==
    RelationshipsDone => stats.relationships_processed = Len(relationships_df)

\* the calls of execute_query for a statement of one kind, in the order they were made
Calls(kind) == SelectSeq(log, LAMBDA e : e.kind = kind /\ e.attempt = 0)

\* C18: over a table of three "Person" rows and one row of blank type, with batch
\* size 2, every schema-creation statement is for PERSON and there is one call for
\* it, which records 3 expected rows; the INSERT VERTEX calls are, in this order,
\* one for the first two Person rows and one for the third, both under PERSON; when
\* import_entities has completed both have been made, entities_processed is 3 and
\* entities_imported is at most 3; the blank row is in no statement.
C18_PersonScenario ==
    LET persons == SelectSeq(<<1, 2, 3, 4>>, LAMBDA n : entities_df[n].type = Person)
        batches == <<SubSeq(persons, 1, 2), SubSeq(persons, 3, 3)>>
        creates == Calls("CREATE_TAG")
        inserts == Calls("INSERT_VERTEX")
        PERSON == <<"P", "E", "R", "S", "O", "N">>
    IN  /\ Len(creates) <= 1
        /\ \A n \in 1..Len(log) :
              /\ log[n].kind \in {"CREATE_TAG", "INSERT_VERTEX", "COUNT_TAG"} => log[n].tag = PERSON
              /\ log[n].kind = "INSERT_VERTEX" =>
                    \A m \in 1..Len(log[n].rows) :
                       entities_df[log[n].rows[m]].type = Person
        /\ Len(inserts) <= 2
        /\ \A k \in 1..Len(inserts) : inserts[k].rows = batches[k]
        /\ inserts # <<>> =>
              /\ Len(creates) = 1
              /\ stats.entity_types = <<[tag |-> PERSON, count |-> 3]>>
        /\ EntitiesDone =>
              /\ Len(inserts) = 2
              /\ Len(inserts[1].rows) = 2 /\ Len(inserts[2].rows) = 1
              /\ stats.entities_processed = 3
              /\ stats.entities_imported <= 3
              /\ stats.entities_imported = RowsImported("INSERT_VERTEX", Len(log))

\* the scenario with the blank row second: the batches were rows 1 and 3, then row
\* 4; the first failed once and was retried, and the run returned success
C18_Witness ==
    /\ pc = "done" /\ result = "True"
    /\ IsNa(entities_df[2].type)
    /\ \E n \in 1..Len(log) :
          log[n].kind = "INSERT_VERTEX" /\ log[n].rows = <<1, 3>> /\ ~log[n].ok
    /\ \E n \in 1..Len(log) :
          log[n].kind = "INSERT_VERTEX" /\ log[n].rows = <<4>> /\ log[n].ok
    /\ stats.entities_processed = 3 /\ stats.entities_imported = 3

\* import_relationships is at a batch no row of which has both a source and a target
AtBlankBatch ==
    /\ pc = "import_relationships"
    /\ batchStart < Len(relationships_df)
    /\ \A n \in (batchStart + 1)..Min(batchStart + config.batch_size, Len(relationships_df)) :
          BlankRel(relationships_df[n])

\* C19: no INSERT EDGE statement is ever issued without a row, and the step that
\* import_relationships takes at a batch in which every row has an empty source or
\* target goes to the next batch: it issues no statement and leaves
\* relationships_imported and the error list as they are.
C19_BlankBatchNoStatement ==
    /\ [](/\ \A n \in 1..Len(log) : log[n].kind = "INSERT_EDGE" => log[n].rows # <<>>
          /\ call.query.kind = "INSERT_EDGE" => call.query.rows # <<>>)
    /\ [][AtBlankBatch =>
            /\ pc' = "import_relationships"
            /\ batchStart' = batchStart + config.batch_size
            /\ call' = NoCall
            /\ log' = log
            /\ stats'.relationships_imported = stats.relationships_imported
            /\ stats'.errors = stats.errors]_vars

\* a finished run with batch size 2 over three relationship rows, the first two
\* without source or target: the only INSERT EDGE call is for the third row, it
\* succeeded, and the error list is empty
C19_Witness ==
    /\ pc = "done" /\ config.batch_size = 2
    /\ Len(relationships_df) = 3
    /\ BlankRel(relationships_df[1]) /\ BlankRel(relationships_df[2])
    /\ Len(Calls("INSERT_EDGE")) = 1 /\ Calls("INSERT_EDGE")[1].rows = <<3>>
    /\ stats.relationships_imported = 1
    /\ stats.errors = <<>>

RECURSIVE ConcatRows(_, _)
\* the rows of the first k of a sequence of calls, one call after the other
ConcatRows(calls, k) ==
    IF k = 0 THEN <<>> ELSE ConcatRows(calls, k - 1) \o calls[k].rows

IsPrefix(a, b) == Len(a) <= Len(b) /\ SubSeq(b, 1, Len(a)) = a

\* the batches issued so far hold the rows of the group in source order, without
\* gap or repetition, all of them once the import is done, and none holds more rows
\* than the batch size
BatchedInOrder(calls, group, done) ==
    /\ IsPrefix(ConcatRows(calls, Len(calls)), group)
    /\ done => ConcatRows(calls, Len(calls)) = group
    /\ \A k \in 1..Len(calls) : Len(calls[k].rows) \in 1..config.batch_size

\* every batch but the last issued holds exactly the batch size
FullExceptLast(calls) ==
    \A k \in 1..Len(calls) - 1 : Len(calls[k].rows) = config.batch_size

\* the INSERT VERTEX calls for the rows of one type, and the rows of that type
VertexCalls(key) ==
    SelectSeq(log, LAMBDA e : e.kind = "INSERT_VERTEX" /\ e.attempt = 0
                                /\ e.tag = Sanitize(key.v))
TypeGroup(key) ==
    SelectSeq([n \in 1..Len(entities_df) |-> n], LAMBDA n : entities_df[n].type = key)

\* the relationship rows that have a source and a target
ValidGroup ==
    SelectSeq([n \in 1..Len(relationships_df) |-> n],
              LAMBDA n : ~BlankRel(relationships_df[n]))

\* the entity batches of every category are order-preserving and size-bounded
EntityBatching ==
    \A key \in {entities_df[n].type : n \in 1..Len(entities_df)} :
        LET calls == VertexCalls(key) IN
        /\ BatchedInOrder(calls, TypeGroup(key), EntitiesDone)
        /\ FullExceptLast(calls)

\* C20 as claimed: for the group of every entity category and for the relationship
\* rows that pass the filter, the batches issued hold the group's rows in source
\* order, none holds more rows than the batch size, and every batch but the last
\* holds exactly the batch size.
C20_BatchesFullExceptLast ==
    /\ EntityBatching
    /\ BatchedInOrder(Calls("INSERT_EDGE"), ValidGroup, RelationshipsDone)
    /\ FullExceptLast(Calls("INSERT_EDGE"))

\* C20: the entity batches of every category hold the category's rows in source
\* order, none more than the batch size and every one but the last exactly the
\* batch size.  The relationship statements hold the rows that have a source and a
\* target in source order, none more than the batch size; each holds the valid rows
\* of one slice of batch-size consecutive rows of the table, so that it is
\* shorter than the batch size when rows of its slice were dropped (or the slice is
\* the last of the table).
C20_BatchesOrderedAndBounded ==
    /\ EntityBatching
    /\ BatchedInOrder(Calls("INSERT_EDGE"), ValidGroup, RelationshipsDone)
    /\ \A e \in {log[n] : n \in {m \in 1..Len(log) : log[m].kind = "INSERT_EDGE"}} :
          LET rows == e.rows
              i == ((rows[1] - 1) \div config.batch_size) * config.batch_size
              slice == {n \in 1..Len(relationships_df) : i < n /\ n <= i + config.batch_size}
          IN  /\ \A m \in 1..Len(rows) : rows[m] \in slice
              /\ \A n \in slice : ~BlankRel(relationships_df[n]) =>
                                       \E m \in 1..Len(rows) : rows[m] = n
              /\ Len(rows) = config.batch_size =>
                    \A n \in slice : ~BlankRel(relationships_df[n])

\* a finished run with batch size 3 over four rows of one category: batches of 3
\* rows and of 1 row
C20_Witness ==
    /\ pc = "done" /\ config.batch_size = 3
    /\ Len(entities_df) = 4
    /\ \A n \in 1..4 : entities_df[n].type = S(<<"b">>)
    /\ Len(VertexCalls(S(<<"b">>))) = 2
    /\ VertexCalls(S(<<"b">>))[1].rows = <<1, 2, 3>>
    /\ VertexCalls(S(<<"b">>))[2].rows = <<4>>

\* the statements about a schema object of a given name, issued or about to be
StatementsFor(name) ==
    {n \in 1..Len(log) : log[n].kind \in {"CREATE_TAG", "INSERT_VERTEX", "COUNT_TAG"}
                           /\ log[n].tag = name}

\* the label of row n yields "skip": no statement is made for its name, and the row
\* is in no INSERT VERTEX statement
Skipped(n) ==
    LET name == Sanitize(files.entities.rows[n].type.v) IN
    /\ StatementsFor(name) = {}
    /\ call.query.kind \in {"CREATE_TAG", "INSERT_VERTEX", "COUNT_TAG"} =>
          call.query.tag # name
    /\ \A k \in 1..Len(log) :
          log[k].kind = "INSERT_VERTEX" => \A m \in 1..Len(log[k].rows) : log[k].rows[m] # n
    /\ stats.entity_types = <<>>

\* the sanitizer applied twice gives what it gives applied once, on the labels of
\* the table and on the names in the statements
SanitizeIdempotent ==
    /\ \A n \in 1..Len(files.entities.rows) :
          LET label == files.entities.rows[n].type.v IN
          Sanitize(Sanitize(label)) = Sanitize(label)
    /\ \A k \in 1..Len(log) :
          log[k].kind \in {"CREATE_TAG", "INSERT_VERTEX", "COUNT_TAG"} =>
             (Sanitize(log[k].tag) = log[k].tag /\ log[k].tag # <<>>)

Punctuation == {"!", "-", "_"}

\* C21 as claimed: the sanitizer is idempotent, and the empty label and every label
\* made only of punctuation characters yield "skip".
C21_PunctuationSkipped ==
    /\ SanitizeIdempotent
    /\ \A n \in 1..Len(files.entities.rows) :
          LET label == files.entities.rows[n].type.v IN
          (\A i \in 1..Len(label) : label[i] \in Punctuation) => Skipped(n)

\* C21: the sanitizer is idempotent; the empty label and every label made only of
\* characters that are neither alphanumeric nor space, hyphen or underscore yield
\* "skip"; a label made only of spaces, hyphens and underscores is sanitized to as
\* many underscores, and once the schema sync has succeeded a schema object of that
\* name has been created.
C21_SanitizeIdempotentAndSkips ==
    /\ SanitizeIdempotent
    /\ \A n \in 1..Len(files.entities.rows) :
          LET label == files.entities.rows[n].type.v IN
          /\ (\A i \in 1..Len(label) : label[i] \notin {" ", "-", "_", "a", "B", "1"}) =>
                Skipped(n)
          /\ (label # <<>> /\ \A i \in 1..Len(label) : label[i] \in {" ", "-", "_"}) =>
                /\ Sanitize(label) = [i \in 1..Len(label) |-> "_"]
                /\ (\E k \in 1..Len(steps) :
                       steps[k] = [name |-> "create_dynamic_tags", ok |-> TRUE]) =>
                      \E k \in 1..Len(log) :
                         log[k].kind = "CREATE_TAG" /\ log[k].ok
                         /\ log[k].tag = [i \in 1..Len(label) |-> "_"]

\* a run over a table whose one label is two dropped characters has returned
\* success without any statement for a schema object
C21_Witness ==
    /\ pc = "done" /\ result = "True"
    /\ entities_df[1].type = S(<<"!", "!">>)
    /\ \A k \in 1..Len(log) :
          log[k].kind \notin {"CREATE_TAG", "INSERT_VERTEX", "COUNT_TAG"}
    /\ stats.entities_processed = 0
    /\ config.validate_data

RECURSIVE Decode(_)
\* the reading of a literal: a backslash and the character after it stand for one
\* character
Decode(chars) ==
    IF chars = <<>> THEN <<>>
    ELSE IF Head(chars) = "BS" /\ Len(chars) >= 2
         THEN LET c == chars[2] IN
              << CASE c = "n" -> "NL"
                   [] c = "r" -> "CR"
                   [] c = "t" -> "TAB"
                   [] OTHER -> c >> \o Decode(Tail(Tail(chars)))
         ELSE <<Head(chars)>> \o Decode(Tail(chars))

RECURSIVE ClosedLiteral(_)
\* no double quote outside an escape sequence, no raw newline, carriage return or
\* tab, and no backslash left without the character it escapes
ClosedLiteral(chars) ==
    IF chars = <<>> THEN TRUE
    ELSE IF Head(chars) = "BS"
         THEN Len(chars) >= 2 /\ chars[2] \in {"BS", "DQ", "n", "r", "t"}
              /\ ClosedLiteral(Tail(Tail(chars)))
         ELSE Head(chars) \notin {"DQ", "NL", "CR", "TAB"} /\ ClosedLiteral(Tail(chars))

\* C22: for every string value, decoding the escape sequences of what escape_string
\* returned gives the value back, and what it returned has no unescaped double
\* quote and no raw newline, carriage return or tab.
C22_EscapeRoundTrip ==
    (pc = "escaped" /\ ~arg.na) =>
        /\ Decode(ret) = arg.v
        /\ ClosedLiteral(ret)

\* escape_string has returned for a backslash followed by the letter n and a double
\* quote: the letter stays a letter after the doubled backslash
C22_Witness ==
    /\ pc = "escaped"
    /\ arg = S(<<"BS", "n", "DQ">>)
    /\ ret = <<"BS", "BS", "n", "BS", "DQ">>

\* C23: no INSERT VERTEX statement holds a vertex whose id key is the empty string
\* (rows whose id is null or missing included), and no INSERT EDGE statement holds
\* an edge whose source or target key is the empty string.
C23_NoEmptyKeyWritten ==
    \A k \in 1..Len(log) :
       /\ log[k].kind = "INSERT_VERTEX" =>
             \A m \in 1..Len(log[k].rows) :
                EscapeString(entities_df[log[k].rows[m]].id) # <<>>
       /\ log[k].kind = "INSERT_EDGE" =>
             \A m \in 1..Len(log[k].rows) :
                /\ EscapeString(relationships_df[log[k].rows[m]].source) # <<>>
                /\ EscapeString(relationships_df[log[k].rows[m]].target) # <<>>

\* the edge half of C23, which the code keeps: no INSERT EDGE statement holds an
\* edge whose source or target key is the empty string
EdgeKeysNotEmpty ==
    \A k \in 1..Len(log) :
       log[k].kind = "INSERT_EDGE" =>
          \A m \in 1..Len(log[k].rows) :
             /\ EscapeString(relationships_df[log[k].rows[m]].source) # <<>>
             /\ EscapeString(relationships_df[log[k].rows[m]].target) # <<>>

\* create_dynamic_tags has returned True
SchemaSynced ==
    \E k \in 1..Len(steps) : steps[k] = [name |-> "create_dynamic_tags", ok |-> TRUE]

\* the names of the schema objects the table asks for
SanitizedNames ==
    {Sanitize(entities_df[n].type.v) :
        n \in {m \in 1..Len(entities_df) : ~SkipsType(entities_df[m].type)}}

\* C24: in a run where no schema-creation statement fails, once the schema
\* synchronizer has returned it has issued exactly one create-if-absent statement
\* for each unique sanitized name, also when two labels sanitize to the same name.
C24_OneCreatePerSanitizedName ==
    (SchemaSynced /\ \A k \in 1..Len(log) : log[k].kind = "CREATE_TAG" => log[k].ok) =>
        \A name \in SanitizedNames :
           Cardinality({k \in 1..Len(log) :
                          log[k].kind = "CREATE_TAG" /\ log[k].tag = name}) = 1

\* what the code does for C24: one create-if-absent statement for each distinct
\* non-blank label, under the name the label is cleaned to
OneCreatePerLabel ==
    (SchemaSynced /\ \A k \in 1..Len(log) : log[k].kind = "CREATE_TAG" => log[k].ok) =>
        \A name \in SanitizedNames :
           Cardinality({k \in 1..Len(log) :
                          log[k].kind = "CREATE_TAG" /\ log[k].tag = name})
           = Cardinality({entities_df[n].type :
                            n \in {m \in 1..Len(entities_df) :
                                      /\ ~SkipsType(entities_df[m].type)
                                      /\ Sanitize(entities_df[m].type.v) = name}})

\* the count queries issued so far, in the order they were issued
CountsIssued ==
    SelectSeq(log, LAMBDA e : e.kind \in {"COUNT_TAG", "COUNT_EDGE"})

\* the count queries of a validation: one for each schema object created, in the
\* order of creation, then one for the relationship type
CountsExpected ==
    [n \in 1..Len(stats.entity_types) |-> [kind |-> "COUNT_TAG",
                                           tag |-> stats.entity_types[n].tag]]
    \o <<[kind |-> "COUNT_EDGE", tag |-> <<>>]>>

CountsAsked == [n \in 1..Len(CountsIssued) |-> [kind |-> CountsIssued[n].kind,
                                                tag |-> CountsIssued[n].tag]]

\* validate_import has returned, with any value
Validated == \E k \in 1..Len(steps) : steps[k].name = "validate_import"

\* no count query unless the flag is on, and none before an insert statement
CountsAfterInserts ==
    /\ ~config.validate_data => CountsIssued = <<>>
    /\ \A j \in 1..Len(log) : \A k \in 1..Len(log) :
          (j < k /\ log[j].kind \in {"COUNT_TAG", "COUNT_EDGE"}) =>
             log[k].kind \in {"COUNT_TAG", "COUNT_EDGE"}
    /\ CountsIssued # <<>> =>
          \E k \in 1..Len(steps) : steps[k] = [name |-> "import_relationships", ok |-> TRUE]

\* C26 as claimed: validation is optional and runs at most once, after both
\* imports: with the flag off no count query is issued; with it on the count
\* queries come after the last insert statement, and a validation that has returned
\* has issued one for each schema object created plus one for the relationship type.
C26_OneCountPerCategory ==
    /\ CountsAfterInserts
    /\ (config.validate_data /\ Validated) => CountsAsked = CountsExpected

\* C26: with the flag off no count query is issued; with it on the count queries
\* come after the last insert statement, each at most once and in the order of the
\* schema objects created, the relationship type last; a validation that returned
\* True has issued all of them, one that returned False stopped at a count query
\* that raised and did not issue the rest.
C26_CountsOnceAfterImports ==
    /\ CountsAfterInserts
    /\ IsPrefix(CountsAsked, CountsExpected)
    /\ \A k \in 1..Len(steps) :
          steps[k].name = "validate_import" =>
             IF steps[k].ok
             THEN config.validate_data => CountsAsked = CountsExpected
             ELSE /\ CountsIssued # <<>>
                  /\ ~CountsIssued[Len(CountsIssued)].ok

\* a validation over two schema objects has returned True after three count
\* queries, each answered, that follow the insert statements
C26_Witness ==
    /\ pc = "done" /\ result = "True"
    /\ config.validate_data
    /\ Len(stats.entity_types) = 2
    /\ Len(CountsIssued) = 3
    /\ \A n \in 1..3 : CountsIssued[n].ok
    /\ \E k \in 1..Len(log) : log[k].kind = "INSERT_VERTEX"
    /\ \E k \in 1..Len(log) : log[k].kind = "INSERT_EDGE"

\* the rows of the INSERT VERTEX statements made under a name
RowsInsertedUnder(name) ==
    {<<k, m>> \in (1..Len(log)) \X (1..Len(entities_df)) :
        /\ log[k].kind = "INSERT_VERTEX" /\ log[k].tag = name
        /\ m \in 1..Len(log[k].rows)}

\* C30: after a successful schema sync the expected count recorded for a schema
\* object is the number of entity rows whose label sanitizes to its name, and when
\* import_entities has completed without a failed insert statement it is the number
\* of rows inserted under the object, also when two labels sanitize to one name.
C30_ExpectedCountPerSchemaObject ==
    SchemaSynced =>
       \A n \in 1..Len(stats.entity_types) :
          LET name == stats.entity_types[n].tag IN
          /\ stats.entity_types[n].count =
                Cardinality({m \in 1..Len(entities_df) :
                               /\ ~SkipsType(entities_df[m].type)
                               /\ Sanitize(entities_df[m].type.v) = name})
          /\ ((\E k \in 1..Len(steps) :
                  steps[k] = [name |-> "import_entities", ok |-> TRUE])
               /\ \A k \in 1..Len(log) : log[k].kind = "INSERT_VERTEX" => log[k].ok) =>
                stats.entity_types[n].count = Cardinality(RowsInsertedUnder(name))

\* what the code records for C30: the number of rows of the label that was created
\* last under the name
ExpectedCountOfLastLabel ==
    SchemaSynced =>
       \A n \in 1..Len(stats.entity_types) :
          \E m \in 1..Len(entities_df) :
             /\ ~SkipsType(entities_df[m].type)
             /\ Sanitize(entities_df[m].type.v) = stats.entity_types[n].tag
             /\ stats.entity_types[n].count = CountOfType(entities_df, entities_df[m].type)

\* the cases in which C25 gives the exit code 1
ExitsWithOne ==
    /\ files.config # "ok" => exit_code = 1
    /\ (\E k \in 1..Len(steps) : steps[k] = [name |-> "connect_nebula", ok |-> FALSE]) =>
          exit_code = 1
    /\ result \in {"False", "raised", "interrupted"} => exit_code = 1
    /\ interrupted => exit_code = 1

\* C25 as claimed: the exit code is 0 exactly when run returned success, and 1 when
\* the config file is missing, the connect step failed, run returned failure, an
\* exception left run, or the user interrupted.
C25_ExitZeroIffRunSucceeded ==
    pc = "exited" =>
        /\ exit_code = 0 <=> result = "True"
        /\ ExitsWithOne

\* C25: the exit code is 0 exactly when run returned success and no interrupt
\* reached main before the process ended.  With no interrupt it is 1 in every other
\* case: the config file is missing or does not load, the connect step failed, run
\* returned failure, or an exception left run.  With an interrupt it is never 0: it
\* is 1 when `except KeyboardInterrupt` of main, entered from run or from the try
\* block after run returned, reaches its sys.exit(1); the process is ended by SIGINT
\* instead only by an interrupt that arrives where no handler of main catches it
\* (before the try block, inside an except clause, or at sys.exit).
C25_ExitCode ==
    /\ [](pc = "exited" =>
            /\ exit_code \in {0, 1, KilledBySigint}
            /\ exit_code = 0 <=> (result = "True" /\ ~interrupted)
            /\ exit_code = KilledBySigint => interrupted
            /\ ~interrupted => ExitsWithOne)
    /\ [][/\ (pc' = "exited" /\ pc # "exited" /\ exit_code' = KilledBySigint) =>
                (interrupted' /\ pc \in {"main", "done", "except_keyboard_interrupt"})
          /\ (pc' = "exited" /\ pc = "except_keyboard_interrupt"
                /\ exit_code' # KilledBySigint) => exit_code' = 1
          /\ (pc' = "except_keyboard_interrupt" /\ pc # pc') =>
                (interrupted' /\ pc \in {"disconnect_nebula", "done"})]_vars

\* the process has exited with 0 after a run that inserted rows and returned True
C25_Witness ==
    /\ pc = "exited"
    /\ exit_code = 0
    /\ result = "True"
    /\ printed
    /\ \E k \in 1..Len(log) : log[k].kind = "INSERT_VERTEX" /\ log[k].ok

\* an optional path was not given, or given as None or as the empty string
NotGiven(value) ==
    value.k \in {"absent", "none"} \/ (value.k = "str" /\ value.v = <<>>)

\* C27: in the payload of a request, root is the string of the request's root path,
\* config and data are the string of their path when given and None when absent or
\* given as the empty string, method is the value of the enum member, and the other
\* fields carry the request's values, streaming being False when not given.
C27_ToPayload ==
    pc = "payload" =>
        LET request == ret.request
            payload == ret.payload
        IN
        /\ payload.root = PyStr(PathStr(ExpandUser(PathOf(arg.root.v))))
        /\ payload.root = PyStr(PathStr(request.root))
        /\ payload.config = IF NotGiven(arg.config) THEN PyNone
                            ELSE PyStr(PathStr(request.config))
        /\ payload.data = IF NotGiven(arg.data) THEN PyNone
                          ELSE PyStr(PathStr(request.data))
        /\ ~NotGiven(arg.config) => request.config = ExpandUser(PathOf(arg.config.v))
        /\ ~NotGiven(arg.data) => request.data = ExpandUser(PathOf(arg.data.v))
        /\ payload.method = PyStr(SearchMethodValue(request.method))
        /\ arg.method # Absent => payload.method = PyStr(SearchMethodValue(arg.method.v[1]))
        /\ payload.query = arg.query
        /\ payload.community_level = request.community_level
        /\ arg.community_level # Absent => payload.community_level = arg.community_level
        /\ payload.dynamic_community_selection = request.dynamic_community_selection
        /\ payload.response_type = request.response_type
        /\ arg.response_type # Absent => payload.response_type = arg.response_type
        /\ payload.verbose = request.verbose
        /\ payload.streaming = IF arg.streaming = Absent THEN PyBool(FALSE)
                               ELSE arg.streaming

\* the payload of a request given a root under the home directory, the empty string
\* for config and a path for data
C27_Witness ==
    /\ pc = "payload"
    /\ arg.root = PyStr(<<"~", "/">>)
    /\ arg.config = PyStr(<<>>)
    /\ arg.data = PyStr(<<"~", "/", "a">>)
    /\ ret.payload.root = PyStr(<<"/", "h">>)
    /\ ret.payload.config = PyNone
    /\ ret.payload.data = PyStr(<<"/", "h", "/", "a">>)
    /\ ret.payload.method = PyStr(<<"local">>)
    /\ ret.payload.streaming = PyBool(FALSE)

\* C28: a call of execute_query that returns failure appends exactly one entry to
\* the error list, and a call that returns success, or a failed attempt that is
\* followed by a retry, appends nothing: at every moment the error list has one
\* entry for each call that has returned failure, and a step changes it only by
\* appending the entry of the call that returns failure in that step.
C28_OneErrorPerFailedCall ==
    /\ [](/\ Len(stats.errors) = Cardinality({n \in Retried : log[n].then = "False"})
          /\ \A i \in 1..Len(stats.errors) :
                stats.errors[i] \in {"Query failed", "Query exception"})
    /\ [][IF Len(log') = Len(log) + 1 /\ log'[Len(log')].then = "False"
          THEN /\ Len(stats'.errors) = Len(stats.errors) + 1
               /\ SubSeq(stats'.errors, 1, Len(stats.errors)) = stats.errors
          ELSE stats'.errors = stats.errors]_vars

\* with a budget of one retry, a call has returned failure after its retry and a
\* call has returned success after a retry, and the error list has one entry
C28_Witness ==
    /\ config.max_retries = 1
    /\ Len(stats.errors) = 1
    /\ \E n \in Retried : log[n].then = "False" /\ log[n].attempt = 1
    /\ \E n \in Retried : log[n].then = "True" /\ log[n].attempt = 1

RECURSIVE SumAttempts(_)
\* the attempts before the last one, summed over the calls that end at the entries ns
SumAttempts(ns) ==
    IF ns = {} THEN 0
    ELSE LET n == CHOOSE m \in ns : TRUE IN log[n].attempt + SumAttempts(ns \ {n})

\* C29: execute_query sleeps once after each failed attempt that is followed by
\* another attempt, and never after the final attempt or after a successful one:
\* the sleeps are as many as the attempts that were followed by a retry, each of
\* them failed and was not the last of the budget, and a call of a attempts has
\* slept a - 1 times.
C29_SleepsBetweenAttempts ==
    /\ sleeps = Cardinality({n \in Retried : log[n].then = "retry"})
    /\ \A n \in Retried :
          log[n].then = "retry" <=> (~log[n].ok /\ log[n].attempt < config.max_retries)
    /\ sleeps = SumAttempts({n \in Retried : log[n].then \in {"True", "False"}})
                + (IF pc = "execute_query" THEN call.attempt ELSE 0)

\* a call of three attempts has returned failure: two sleeps
C29_Witness ==
    /\ config.max_retries = 2
    /\ sleeps = 2
    /\ \E n \in Retried : log[n].then = "False" /\ log[n].attempt = 2
    /\ pc # "execute_query"

\* no call of execute_query for an insert statement has returned failure
NoInsertExhausted ==
    \A k \in 1..Len(log) :
       log[k].kind \in {"INSERT_VERTEX", "INSERT_EDGE"} => log[k].then # "False"

\* C31: when no insert statement exhausts its retries, after both imports have
\* completed entities_imported is the number of entity rows whose type is neither
\* missing nor empty and sanitizes to a non-empty name, and relationships_imported
\* is the number of relationship rows whose source and target are both non-empty.
C31_ImportedCountsValidRows ==
    (EntitiesDone /\ RelationshipsDone /\ NoInsertExhausted) =>
        /\ stats.entities_imported =
              Cardinality({n \in 1..Len(entities_df) :
                             /\ ~IsNa(entities_df[n].type)
                             /\ entities_df[n].type.v # <<>>
                             /\ Sanitize(entities_df[n].type.v) # <<>>})
        /\ stats.relationships_imported =
              Cardinality({n \in 1..Len(relationships_df) :
                             ~BlankRel(relationships_df[n])})

\* both imports have completed without a failed insert over tables with blank rows:
\* one of two entity rows and one of two relationship rows are imported
C31_Witness ==
    /\ EntitiesDone /\ RelationshipsDone /\ NoInsertExhausted
    /\ Len(entities_df) = 2 /\ Len(relationships_df) = 2
    /\ \E n \in 1..2 : entities_df[n].type = S(<<"!">>)
    /\ \E n \in 1..2 : relationships_df[n].target = NaN
    /\ stats.entities_imported = 1
    /\ stats.relationships_imported = 1

\* disconnect_nebula has run
Disconnected ==
    \E k \in 1..Len(steps) : steps[k].name = "disconnect_nebula"

\* C32: within one run the session is acquired at most once and released at most
\* once, and released only if it was acquired: it only ever goes from not acquired
\* to acquired, in connect_nebula, and from acquired to released, in
\* disconnect_nebula; a statement is issued only on the acquired session, and none
\* is issued, or waiting to be issued, once disconnect_nebula has released the
\* session, closed the pool or returned.
C32_SessionLifetime ==
    /\ [](/\ session \in {"none", "acquired", "released"}
          /\ (session = "released" \/ connection_pool = "closed" \/ Disconnected) =>
                (pc \in {"done", "except_keyboard_interrupt", "exited"} /\ call = NoCall)
          /\ Disconnected => session # "acquired")
    /\ [][/\ session' # session =>
               \/ session = "none" /\ session' = "acquired" /\ pc = "connect_nebula"
               \/ session = "acquired" /\ session' = "released"
                     /\ pc = "disconnect_nebula"
          /\ log' # log => (session' = "acquired" /\ ~Disconnected /\ ~Disconnected')
          /\ (session = "released" \/ Disconnected) => (log' = log /\ session' = session)
          /\ pc \in {"done", "except_keyboard_interrupt", "exited"} => log' = log]_vars

\* a run that issued insert statements on its session has disconnected: the session
\* is released and the process has exited
C32_Witness ==
    /\ pc = "exited"
    /\ session = "released"
    /\ Disconnected
    /\ \E k \in 1..Len(log) : log[k].kind = "INSERT_EDGE"
    /\ log[1].kind = "USE"

\* the components of a path of a payload
PayloadParts(value) == PathOf(value.v).parts

\* the paths of a payload other than the root: config, and output or data
ChildPaths(payload) ==
    {payload.config} \cup (IF "data" \in DOMAIN payload THEN {payload.data}
                           ELSE {payload.output})

\* C33: a request to /index, /update or /query that leads to a task being enqueued
\* has in its payload a root that is an existing directory permitted by the
\* allow-list, and every config, output or data path of the payload that is not None,
\* given as a relative or as an absolute path, lies inside that root; a request that
\* fails a check enqueues no task.
C33_PayloadPathsInsideRoot ==
    pc = "responded" =>
        IF ret.status = 200
        THEN /\ Len(queue) = 1
             /\ LET rootParts == PayloadParts(queue[1].root) IN
                /\ rootParts \in FsDirs
                /\ IsRootAllowed(arg.allowed_roots, rootParts)
                /\ \A path \in ChildPaths(queue[1]) :
                      path # PyNone => IsRelativeTo(PayloadParts(path), rootParts)
        ELSE queue = <<>>

\* what the code keeps of C33: the root of an enqueued payload is an existing
\* directory permitted by the allow-list, every path given as a relative path lies
\* inside it, and a request that is refused enqueues no task
RelativePathsInsideRoot ==
    pc = "responded" =>
        IF ret.status = 200
        THEN /\ Len(queue) = 1
             /\ LET rootParts == PayloadParts(queue[1].root) IN
                /\ rootParts \in FsDirs
                /\ IsRootAllowed(arg.allowed_roots, rootParts)
                /\ \A field \in {"config", "output", "data"} :
                      (/\ field \in DOMAIN arg.fields
                       /\ arg.fields[field].k = "str"
                       /\ arg.fields[field].v # <<>>
                       /\ arg.fields[field].v[1] \notin {"/", "~"}) =>
                         /\ queue[1][field] # PyNone
                         /\ IsRelativeTo(PayloadParts(queue[1][field]), rootParts)
        ELSE queue = <<>>

====
